---------------------------- MODULE Spec2Model ----------------------------
(***************************************************************************)
(* A model of the airline PII redactor (src/airline_pii_redactor.py).      *)
(*                                                                         *)
(* Text is a sequence of one-character strings.  A CJK code point, and a   *)
(* control character that has no escape, is written "Uxxxx" (its           *)
(* hexadecimal code point) and counts as ONE character.  Offsets are       *)
(* 0-based and half-open as in Python: the slice                           *)
(* text[a:b] is Slice(text, a, b).  Confidence scores are in hundredths    *)
(* (0.6 is 60).  Only the CJK characters listed in GivenNameChars and in   *)
(* the surname list are characters of the model.                           *)
(*                                                                         *)
(* redact calls four libraries.  The analyzer (Presidio AnalyzerEngine)    *)
(* runs the four registered patterns, which the model computes, and its    *)
(* predefined recognizers, whose reports the model draws from NerReports;  *)
(* it may also raise.  The date parser (dateutil) answers a year or fails, *)
(* text by text (LenientAnswers).  The Chinese detector (HanLP) answers    *)
(* with any item of HanlpAnswers or raises.  The anonymizer (Presidio      *)
(* AnonymizerEngine) is modelled step by step: conflict removal,           *)
(* whitespace merge, and replacement from the last span to the first.      *)
(***************************************************************************)
EXTENDS Integers, Sequences, FiniteSets, TLC

VARIABLES
  hanlp_ner,          \* self.hanlp_ner: "absent" (None) or "loaded"
  merge_sorts,        \* the installed anonymizer sorts before its whitespace merge
  has_name_pattern,   \* hasattr(self, '_chinese_name_pattern')
  pc,                 \* position of the current redact call
  text,               \* the argument of the current redact call
  combined_results,   \* combined_results (step 6)
  final_results,      \* final_results (step 7)
  output,             \* the value redact returns
  outcome             \* how the call ended

vars == <<hanlp_ner, merge_sorts, has_name_pattern, pc, text, combined_results,
          final_results, output, outcome>>

----------------------------------------------------------------------------
(* Characters and the Python string methods the program uses.              *)

UpperSeq ==
  <<"A","B","C","D","E","F","G","H","I","J","K","L","M",
    "N","O","P","Q","R","S","T","U","V","W","X","Y","Z">>
LowerSeq ==
  <<"a","b","c","d","e","f","g","h","i","j","k","l","m",
    "n","o","p","q","r","s","t","u","v","w","x","y","z">>
UpperChars == {UpperSeq[i] : i \in 1..26}
LowerChars == {LowerSeq[i] : i \in 1..26}
DigitChars == {"0","1","2","3","4","5","6","7","8","9"}
AlnumChars == UpperChars \cup LowerChars \cup DigitChars
\* \s of the re module and the characters str.strip()/str.split() drop:
\* space, tab, line feed, carriage return, form feed, vertical tab (U000B)
\* and the four separators U001C to U001F
SpaceChars ==
  {" ", "\t", "\n", "\r", "\f", "U000B", "U001C", "U001D", "U001E", "U001F"}

Min(a, b) == IF a < b THEN a ELSE b
Max(a, b) == IF a > b THEN a ELSE b

\* Python's s[a:b] for 0 <= a: both ends clamped to len(s)
Slice(s, a, b) ==
  LET lo == Min(Max(a, 0), Len(s))
      hi == Min(Max(b, 0), Len(s))
  IN  IF lo >= hi THEN <<>> ELSE SubSeq(s, lo + 1, hi)

RECURSIVE Str(_)
\* the characters of s as one string, to look a word up in a table
Str(s) == IF s = <<>> THEN "" ELSE s[1] \o Str(Tail(s))

RECURSIVE Flatten(_)
\* the concatenation of a sequence of sequences
Flatten(ss) == IF ss = <<>> THEN <<>> ELSE ss[1] \o Flatten(Tail(ss))


LowerOf(c) ==
  IF c \in UpperChars
    THEN LowerSeq[CHOOSE i \in 1..26 : UpperSeq[i] = c] ELSE c
UpperOf(c) ==
  IF c \in LowerChars
    THEN UpperSeq[CHOOSE i \in 1..26 : LowerSeq[i] = c] ELSE c
\* str.lower(), str.upper()
lower(s) == [i \in 1..Len(s) |-> LowerOf(s[i])]
upper(s) == [i \in 1..Len(s) |-> UpperOf(s[i])]

----------------------------------------------------------------------------
(* Tables of the program (generated from the source, entries unchanged).   *)

\* src lines 63-100
single_surnames ==
  {
    "bai", "ban", "bao", "bei", "bi", "bian", "biao", "bie", "bin", "bing", "bo", "bu", "cai",
    "cao", "cen", "chai", "chan", "chang", "chao", "chau", "che", "chen", "cheng", "cheong",
    "cheung", "chi", "chiu", "chong", "chou", "chu", "chuan", "chuang", "chueng", "chun",
    "chung", "ci", "cong", "cui", "cun", "cuo", "da", "dai", "dan", "dang", "dao", "de", "deng",
    "di", "dian", "diao", "ding", "diu", "dong", "dou", "du", "duan", "dun", "duo", "e", "en",
    "er", "fa", "fan", "fang", "fei", "fen", "feng", "fo", "fou", "fu", "ga", "gai", "gan",
    "gang", "gao", "ge", "gei", "gen", "geng", "gong", "gou", "gu", "gua", "guai", "guan",
    "guang", "gui", "gun", "guo", "ha", "hai", "han", "hang", "hao", "he", "hei", "hen", "heng",
    "ho", "hong", "hou", "hsu", "hu", "hua", "huai", "huan", "huang", "hui", "hun", "huo",
    "hwang", "ji", "jia", "jian", "jiang", "jiao", "jie", "jin", "jing", "jiong", "jiu", "ju",
    "juan", "jue", "jun", "ka", "kai", "kan", "kang", "kao", "ke", "ken", "keng", "kong", "kou",
    "ku", "kua", "kuai", "kuan", "kuang", "kui", "kun", "kuo", "kwan", "kwok", "kwong", "la",
    "lai", "lam", "lan", "lang", "lao", "lau", "le", "lee", "lei", "leng", "leong", "leung",
    "li", "lia", "lian", "liang", "liao", "lie", "lin", "ling", "liu", "lo", "long", "lou",
    "lu", "luan", "lun", "luo", "ma", "mai", "man", "mang", "mao", "me", "mei", "men", "meng",
    "mi", "mian", "miao", "mie", "min", "ming", "miu", "mo", "mou", "mu", "na", "nai", "nan",
    "nang", "nao", "ne", "nei", "nen", "neng", "ng", "ni", "nian", "niang", "niao", "nie",
    "nin", "ning", "niu", "nong", "nu", "nuan", "o", "ou", "pa", "pai", "pan", "pang", "pao",
    "pei", "pen", "peng", "pi", "pian", "piao", "pie", "pin", "ping", "po", "pou", "pu", "qi",
    "qia", "qian", "qiang", "qiao", "qie", "qin", "qing", "qiong", "qiu", "qu", "quan", "que",
    "qun", "ran", "rang", "rao", "re", "ren", "reng", "ri", "rong", "rou", "ru", "ruan", "rui",
    "run", "ruo", "sa", "sai", "san", "sang", "sao", "se", "sen", "seng", "sha", "shai", "shan",
    "shang", "shao", "she", "shek", "shen", "sheng", "shi", "shou", "shu", "shua", "shuai",
    "shuan", "shuang", "shui", "shum", "shun", "shuo", "shyu", "si", "song", "sou", "su",
    "suan", "suen", "sui", "sun", "suo", "ta", "tai", "tan", "tang", "tao", "tay", "te", "teng",
    "teoh", "tham", "ti", "tian", "tiao", "tie", "ting", "tong", "tou", "tsang", "tsieh",
    "tsui", "tu", "tuan", "tui", "tun", "tuo", "wa", "wai", "wan", "wang", "wei", "wen", "weng",
    "wo", "wong", "woon", "wu", "xi", "xia", "xian", "xiang", "xiao", "xie", "xin", "xing",
    "xiong", "xiu", "xu", "xuan", "xue", "xun", "ya", "yan", "yang", "yao", "yau", "ye", "yee",
    "yeung", "yi", "yin", "ying", "yip", "yo", "yong", "you", "yu", "yuan", "yue", "yuen",
    "yun", "yung", "za", "zai", "zan", "zang", "zao", "ze", "zei", "zen", "zeng", "zha", "zhai",
    "zhan", "zhang", "zhao", "zhe", "zhen", "zheng", "zhi", "zhong", "zhou", "zhu", "zhua",
    "zhuai", "zhuan", "zhuang", "zhui", "zhun", "zhuo", "zi", "zong", "zou", "zu", "zuan",
    "zui", "zun", "zuo"
  }

\* src lines 103-110
compound_surnames ==
  {
    "auyeung", "beigong", "chunyu", "dantai", "dongfang", "duanmu", "gongsun", "gongxi",
    "gongye", "guanqiu", "guliang", "haan", "huangfu", "jiagu", "jinyun", "lanxu", "liangqiu",
    "linghu", "lvqiu", "moyao", "nalan", "nangong", "ouyang", "shangguan", "shusun", "sima",
    "situ", "szeto", "taihu", "weisheng", "wuyan", "xiahou", "xiangsi", "xianyu", "ximen",
    "xueqiu", "yanshi", "yuchi", "zhaoshe", "zhengxi", "zhongli", "zhongsun", "zhuansun",
    "zhuanyu", "zhuge", "zongzheng", "zuifu"
  }

\* src lines 113-132
blacklist ==
  {
    "126", "163", "about", "account", "address", "admin", "after", "aliyun", "all", "also",
    "any", "api", "back", "before", "being", "both", "challenge", "chance", "change", "channel",
    "charge", "chart", "chat", "cheap", "check", "cheese", "chemical", "chest", "chicken",
    "chief", "child", "china", "chinese", "chocolate", "choice", "choose", "christmas",
    "church", "cinema", "client", "come", "config", "configuration", "contact", "database",
    "default", "each", "email", "every", "example", "few", "first", "foxmail", "from", "gmail",
    "good", "great", "guest", "have", "himself", "hotmail", "how", "icloud", "id", "info",
    "information", "interface", "into", "just", "know", "like", "live", "login", "logout",
    "mail", "make", "might", "mobile", "more", "most", "msn", "much", "name", "never", "no",
    "nor", "not", "only", "other", "outlook", "over", "own", "password", "phone", "profile",
    "protonmail", "qq", "root", "said", "same", "server", "setting", "shall", "should", "sina",
    "so", "sohu", "some", "such", "system", "take", "test", "than", "that", "their", "them",
    "themselves", "there", "these", "they", "think", "this", "those", "time", "too", "user",
    "username", "very", "well", "were", "what", "when", "where", "which", "while", "who",
    "whom", "whose", "why", "with", "would", "yahoo", "yeah", "year"
  }

\* src lines 209-247
pnr_blacklist ==
  {
    "ABOUT", "ABOVE", "ACCESS", "ACTION", "ADMIN", "ADULT", "AFTER", "AGAIN", "AGENT", "AIRBUS",
    "AISLE", "ALERT", "AMOUNT", "APP", "APPLY", "ARRIVAL", "ASK", "AUDIO", "BACK", "BAGGAGE",
    "BAGS", "BANKS", "BASIC", "BEERS", "BELOW", "BLACK", "BOARD", "BOAT", "BODY", "BOEING",
    "BRAKE", "BUILD", "BUSES", "BUYER", "CABIN", "CANCEL", "CARD", "CARGO", "CASE", "CASH",
    "CENTER", "CHARGES", "CHECK", "CHILD", "CHOOSE", "CLAIM", "CLASS", "CLICK", "CLOSE",
    "COACH", "CODES", "COLOR", "COST", "COSTS", "COUNT", "CREW", "CYCLE", "DAILY", "DATA",
    "DATES", "DEALS", "DEBIT", "DELAY", "DEPART", "DONE", "DRINK", "DRIVE", "DUTY", "EARLY",
    "ELITE", "EMAIL", "END", "ENJOY", "ENTRY", "ERROR", "EVENT", "EXIT", "FAQ", "FARE", "FARES",
    "FAULT", "FERRY", "FILE", "FINISH", "FIRST", "FLEET", "FLIGHT", "GALLEY", "GALLON", "GATE",
    "GEARS", "GOLD", "GOODS", "GRAMS", "GREEN", "GROUP", "GUEST", "HAPPY", "HELLO", "HELP",
    "HELPDESK", "HIRE", "HOME", "HOTEL", "HOURS", "INFANT", "INFO", "ISSUE", "ITEMS", "JACKET",
    "JUICE", "KILO", "LAST", "LATER", "LEASE", "LEVEL", "LEVER", "LIGHT", "LINK", "LITER",
    "LOANS", "LOCK", "LOGIN", "LOUNGE", "LUGGAGE", "MAIN", "MAKER", "MEALS", "MEDIA", "MEMBER",
    "MENU", "METER", "METRO", "MIDDLE", "MILE", "MILES", "MOBILE", "MODEL", "MONEY", "MONTH",
    "MOVIE", "MUSIC", "NEVER", "NEXT", "NIGHT", "NOSE", "NOTICE", "NUMBER", "OFFER", "OFFICE",
    "OPEN", "OPTION", "OTHER", "OUNCE", "OWNER", "OXYGEN", "PAINT", "PANEL", "PARTY", "PAYMENT",
    "PEDAL", "PHONE", "PILOT", "PLACE", "PLANE", "POINT", "POINTS", "POUND", "POWER", "PRESS",
    "PREV", "PRICE", "QUERY", "QUICK", "RATE", "RATES", "RECORD", "REFUND", "RENT", "REPLY",
    "RESULT", "RIDER", "ROUND", "ROUTE", "RULES", "SAFETY", "SALES", "SCORE", "SCREEN", "SEATS",
    "SHIPS", "SILVER", "SINCE", "SITE", "SMART", "SNACK", "SORRY", "SPACE", "SPEED", "SPEND",
    "STAFF", "START", "STATUS", "STEPS", "STOP", "STYLE", "SUPER", "SUPPORT", "TAIL", "TAXES",
    "TAXIS", "TERMS", "THANK", "THEIR", "THERE", "TICKET", "TIERS", "TIMES", "TIRES", "TODAY",
    "TOILET", "TOTAL", "TOUCH", "TRAIN", "TRIP", "TRUST", "UNDER", "UNION", "UNLOCK", "UNTIL",
    "UPDATE", "VALID", "VALUE", "VIDEO", "VISIT", "WALKS", "WALLET", "WATCH", "WATER", "WEB",
    "WEEK", "WHEEL", "WHERE", "WHICH", "WHILE", "WHITE", "WINDOW", "WINES", "WING", "WORLD",
    "YEARS"
  }

\* src lines 254-263 (code points written as "Uxxxx")
chinese_surnames ==
  <<
    <<"U8D75">>, <<"U94B1">>, <<"U5B59">>, <<"U674E">>, <<"U5468">>, <<"U5434">>, <<"U90D1">>,
    <<"U738B">>, <<"U51AF">>, <<"U9648">>, <<"U891A">>, <<"U536B">>, <<"U848B">>, <<"U6C88">>,
    <<"U97E9">>, <<"U6768">>, <<"U6731">>, <<"U79E6">>, <<"U5C24">>, <<"U8BB8">>, <<"U4F55">>,
    <<"U5415">>, <<"U65BD">>, <<"U5F20">>, <<"U5B54">>, <<"U66F9">>, <<"U4E25">>, <<"U534E">>,
    <<"U91D1">>, <<"U9B4F">>, <<"U9676">>, <<"U59DC">>, <<"U6797">>, <<"U9A6C">>, <<"U80E1">>,
    <<"U9AD8">>, <<"U6881">>, <<"U5B8B">>, <<"U9093">>, <<"U53F6">>, <<"U82CF">>, <<"U5362">>,
    <<"U7F57">>, <<"U90ED">>, <<"U8D56">>, <<"U8C22">>, <<"U90B1">>, <<"U4FAF">>, <<"U66FE">>,
    <<"U9ECE">>, <<"U6F58">>, <<"U675C">>, <<"U90B9">>, <<"U8881">>, <<"U4E01">>, <<"U8521">>,
    <<"U5D14">>, <<"U859B">>, <<"U5ED6">>, <<"U5C39">>, <<"U6BB5">>, <<"U96F7">>, <<"U8303">>,
    <<"U6C6A">>, <<"U9673">>, <<"U9EC3">>, <<"U5F35">>, <<"U5289">>, <<"U5433">>, <<"U912D">>,
    <<"U8523">>, <<"U9127">>, <<"U8449">>, <<"U8607">>, <<"U76E7">>, <<"U7F85">>, <<"U8CF4">>,
    <<"U8B1D">>, <<"U937E">>, <<"U99AE">>, <<"U99AC">>, <<"U694A">>, <<"U6881">>, <<"U5B8B">>,
    <<"U8A31">>, <<"U856D">>, <<"U9F94">>, <<"U8B5A">>, <<"U6B27", "U9633">>, <<"U592A",
    "U53F2">>, <<"U7AEF", "U6728">>, <<"U4E0A", "U5B98">>, <<"U53F8", "U9A6C">>, <<"U4E1C",
    "U65B9">>, <<"U72EC", "U5B64">>, <<"U5357", "U5BAB">>, <<"U4E07", "U4FDF">>, <<"U95FB",
    "U4EBA">>, <<"U590F", "U4FAF">>, <<"U8BF8", "U845B">>, <<"U5C09", "U8FDF">>, <<"U516C",
    "U7F8A">>, <<"U6B50", "U967D">>, <<"U53F8", "U99AC">>, <<"U6771", "U65B9">>, <<"U7368",
    "U5B64">>, <<"U5357", "U5BAE">>, <<"U842C", "U4FDF">>, <<"U805E", "U4EBA">>, <<"U8AF8",
    "U845B">>, <<"U5C09", "U9072">>
  >>

\* src lines 325-325
trad_additions ==
  <<
    <<"U9673">>, <<"U9EC3">>, <<"U5F35">>, <<"U5289">>, <<"U5433">>, <<"U912D">>, <<"U8523">>,
    <<"U9127">>, <<"U8449">>, <<"U8607">>, <<"U76E7">>, <<"U7F85">>, <<"U8CF4">>, <<"U8B1D">>,
    <<"U937E">>
  >>
\* src lines 248-251, character by character for the substring test
pnr_context_keywords ==
  {<<"p","n","r">>,
   <<"r","e","c","o","r","d"," ","l","o","c","a","t","o","r">>,
   <<"b","o","o","k","i","n","g">>,
   <<"r","e","s","e","r","v","a","t","i","o","n">>,
   <<"c","o","n","f","i","r","m">>,
   <<"c","o","n","f","i","r","m","a","t","i","o","n">>,
   <<"i","t","i","n","e","r","a","r","y">>,
   <<"t","i","c","k","e","t">>,
   <<"l","o","c","a","t","o","r">>,
   <<"r","e","f">>,
   <<"r","e","f","e","r","e","n","c","e">>}

\* src line 510
context_keywords ==
  {<<"f","l","y","e","r">>,
   <<"m","i","l","e","s">>,
   <<"p","o","i","n","t","s">>,
   <<"m","e","m","b","e","r">>,
   <<"c","l","u","b">>,
   <<"p","r","o","g","r","a","m">>,
   <<"c","a","r","d">>}

\* src line 521
common_single_words ==
  {"may", "will", "can", "long", "young", "man", "king", "mark", "rose", "read", "book"}

\* src line 27: the prefixes the CN prefix_validator accepts
cn_prefixes ==
  {
    "130", "131", "132", "133", "134", "135", "136", "137", "138", "139", "145", "147", "149",
    "150", "151", "152", "153", "155", "156", "157", "158", "159", "165", "166", "170", "171",
    "173", "175", "176", "177", "178", "180", "181", "182", "183", "184", "185", "186", "187",
    "188", "189", "190", "191", "192", "193", "195", "196", "197", "198", "199"
  }

\* the characters of the model that lie in the range [\u2e80-\u9fff] of src line 335
GivenNameChars ==
  {"U660E", "U4F1F", "U5929", "U6C14", "U5C0F", "U4ECA", "U5F88", "U597D",
   "U4E09", "U5927", "U6587", "U6211", "U59D3"}
SurnameChars ==
  UNION {{chinese_surnames[i][j] : j \in 1..Len(chinese_surnames[i])} :
           i \in 1..Len(chinese_surnames)}
CJKChars == SurnameChars \cup GivenNameChars
\* the characters str.isalpha() accepts, and \w of the re module
AlphaChars == UpperChars \cup LowerChars \cup CJKChars
WordChars == AlnumChars \cup CJKChars \cup {"_"}

\* str.strip()
RECURSIVE lstrip(_)
lstrip(s) ==
  IF s # <<>> /\ s[1] \in SpaceChars THEN lstrip(Tail(s)) ELSE s
RECURSIVE rstrip(_)
rstrip(s) ==
  IF s # <<>> /\ s[Len(s)] \in SpaceChars
    THEN rstrip(SubSeq(s, 1, Len(s) - 1)) ELSE s
strip(s) == rstrip(lstrip(s))

RECURSIVE split(_)
\* str.split(): the maximal runs of non-whitespace characters
split(s) ==
  LET t == lstrip(s)
      n == IF \E i \in 1..Len(t) : t[i] \in SpaceChars
             THEN (CHOOSE i \in 1..Len(t) :
                     /\ t[i] \in SpaceChars
                     /\ \A j \in 1..(i - 1) : t[j] \notin SpaceChars) - 1
             ELSE Len(t)
  IN  IF t = <<>> THEN <<>>
      ELSE <<SubSeq(t, 1, n)>> \o split(SubSeq(t, n + 1, Len(t)))

isalpha(s) == s # <<>> /\ \A i \in 1..Len(s) : s[i] \in AlphaChars
isdigit(s) == s # <<>> /\ \A i \in 1..Len(s) : s[i] \in DigitChars
isupper(s) ==
  /\ \E i \in 1..Len(s) : s[i] \in UpperChars
  /\ \A i \in 1..Len(s) : s[i] \notin LowerChars
AnyLower(s) == \E i \in 1..Len(s) : s[i] \in LowerChars
AnyDigit(s) == \E i \in 1..Len(s) : s[i] \in DigitChars

\* k in s, for strings
Contains(s, k) ==
  \E i \in 0..(Len(s) - Len(k)) : Slice(s, i, i + Len(k)) = k

----------------------------------------------------------------------------
(* Regular expressions, as the re module matches them: a pattern is a      *)
(* sequence of items; Ends lists every offset at which a match starting at *)
(* pos can end, in the order backtracking tries them, so that its first    *)
(* element is the end of the match re reports.                             *)

Cls(cs, lo, hi) == [t |-> "cls", cs |-> cs, lo |-> lo, hi |-> hi, sub |-> <<>>]
Lit(c)          == Cls({c}, 1, 1)
Alt(subs)       == [t |-> "alt", cs |-> {}, lo |-> 0, hi |-> 0, sub |-> subs]
Opt(p)          == Alt(<<p, <<>>>>)
WordB           == [t |-> "wb", cs |-> {}, lo |-> 0, hi |-> 0, sub |-> <<>>]
NotBehind(cs)   == [t |-> "nlb", cs |-> cs, lo |-> 0, hi |-> 0, sub |-> <<>>]
NotAhead(cs)    == [t |-> "nla", cs |-> cs, lo |-> 0, hi |-> 0, sub |-> <<>>]
Ahead(p)        == [t |-> "la", cs |-> {}, lo |-> 0, hi |-> 0, sub |-> p]
\* hi of an unbounded repetition (+, *)
NoLimit == 0 - 1

\* the number of characters from pos on that lie in cs, at most hi
RunLen(s, pos, cs, hi) ==
  LET cap == IF hi = NoLimit THEN Len(s) - pos ELSE Min(hi, Len(s) - pos)
      ok  == {k \in 0..cap : \A j \in 1..k : s[pos + j] \in cs}
  IN  CHOOSE k \in ok : \A m \in ok : m <= k

IsWordAt(s, pos) == pos >= 0 /\ pos < Len(s) /\ s[pos + 1] \in WordChars

RECURSIVE Ends(_, _, _, _)
Ends(s, p, i, pos) ==
  IF i > Len(p) THEN <<pos>>
  ELSE LET it == p[i] IN
    CASE it.t = "cls" ->
           LET r == RunLen(s, pos, it.cs, it.hi)
           IN  IF r < it.lo THEN <<>>
               ELSE Flatten([k \in 1..(r - it.lo + 1) |->
                               Ends(s, p, i + 1, pos + r - k + 1)])
      [] it.t = "alt" ->
           LET per == [a \in 1..Len(it.sub) |->
                        LET es == Ends(s, it.sub[a], 1, pos)
                        IN  Flatten([e \in 1..Len(es) |->
                                       Ends(s, p, i + 1, es[e])])]
           IN  Flatten(SelectSeq(per, LAMBDA x : x # <<>>))
      [] it.t = "wb" ->
           IF IsWordAt(s, pos - 1) # IsWordAt(s, pos)
             THEN Ends(s, p, i + 1, pos) ELSE <<>>
      [] it.t = "nlb" ->
           IF pos >= 1 /\ s[pos] \in it.cs THEN <<>> ELSE Ends(s, p, i + 1, pos)
      [] it.t = "nla" ->
           IF pos < Len(s) /\ s[pos + 1] \in it.cs
             THEN <<>> ELSE Ends(s, p, i + 1, pos)
      [] it.t = "la" ->
           IF Ends(s, it.sub, 1, pos) = <<>> THEN <<>> ELSE Ends(s, p, i + 1, pos)

\* the end of the match of p at pos, or -1
MatchEnd(s, p, pos) ==
  LET es == Ends(s, p, 1, pos) IN IF es = <<>> THEN -1 ELSE es[1]

RECURSIVE FindFrom(_, _, _)
\* re.finditer(p, s) from pos on: leftmost matches, none overlapping
FindFrom(s, p, pos) ==
  IF pos > Len(s) THEN <<>>
  ELSE LET e == MatchEnd(s, p, pos)
       IN  IF e < 0 THEN FindFrom(s, p, pos + 1)
           ELSE <<[start |-> pos, end |-> e]>>
                  \o FindFrom(s, p, IF e > pos THEN e ELSE pos + 1)
finditer(s, p) == FindFrom(s, p, 0)

RECURSIVE Rebuild(_, _, _, _)
\* re.sub: s with the k-th match replaced by reps[k], from match k on
Rebuild(s, ms, reps, k) ==
  IF k > Len(ms) THEN Slice(s, IF ms = <<>> THEN 0 ELSE ms[Len(ms)].end, Len(s))
  ELSE Slice(s, IF k = 1 THEN 0 ELSE ms[k - 1].end, ms[k].start)
         \o reps[k] \o Rebuild(s, ms, reps, k + 1)

\* re.sub(r'\s+', ' ', s)
CollapseWhitespace(s) ==
  LET ms == finditer(s, <<Cls(SpaceChars, 1, NoLimit)>>)
  IN  Rebuild(s, ms, [k \in 1..Len(ms) |-> <<" ">>], 1)

----------------------------------------------------------------------------
(* The recognizers.  A candidate is [type, start, end, score].             *)

Result(type, start, end, score) ==
  [type |-> type, start |-> start, end |-> end, score |-> score]

LetterChars == UpperChars \cup LowerChars
DashSpace == {"-"} \cup SpaceChars
Sep == Cls(DashSpace, 0, 1)
\* (?:\+?<code>[-\s]?)?
CountryCode(code) ==
  Opt(<<Cls({"+"}, 0, 1)>> \o [i \in 1..Len(code) |-> Lit(code[i])] \o <<Sep>>)
NoDigitBefore == NotBehind(DigitChars)
NoDigitAfter == NotAhead(DigitChars)

\* InternationalPhoneRecognizer.PHONE_PATTERNS, in the order of the dict
PHONE_PATTERNS ==
  << [region |-> "CN", min_length |-> 11, max_length |-> 11,
      prefix_validator |-> TRUE, confidence |-> 95,
      pattern |-> <<NoDigitBefore, Lit("1"),
                    Cls({"3","4","5","6","7","8","9"}, 1, 1),
                    Cls(DigitChars, 9, 9), NoDigitAfter>>],
     [region |-> "HK", min_length |-> 8, max_length |-> 12,
      prefix_validator |-> FALSE, confidence |-> 90,
      pattern |-> <<NoDigitBefore, CountryCode(<<"8","5","2">>),
                    Cls({"5","6","9"}, 1, 1), Cls(DigitChars, 3, 3), Sep,
                    Cls(DigitChars, 4, 4), NoDigitAfter>>],
     [region |-> "TW", min_length |-> 9, max_length |-> 15,
      prefix_validator |-> FALSE, confidence |-> 90,
      pattern |-> <<NoDigitBefore, CountryCode(<<"8","8","6">>),
                    Cls({"0"}, 0, 1), Lit("9"), Cls(DigitChars, 2, 2), Sep,
                    Cls(DigitChars, 3, 3), Sep, Cls(DigitChars, 3, 3),
                    NoDigitAfter>>],
     [region |-> "US_CA", min_length |-> 10, max_length |-> 16,
      prefix_validator |-> FALSE, confidence |-> 85,
      pattern |-> <<NoDigitBefore, CountryCode(<<"1">>), Cls({"("}, 0, 1),
                    Cls({"2","3","4","5","6","7","8","9"}, 1, 1),
                    Cls(DigitChars, 2, 2), Cls({")"}, 0, 1), Sep,
                    Cls({"2","3","4","5","6","7","8","9"}, 1, 1),
                    Cls(DigitChars, 2, 2), Sep, Cls(DigitChars, 4, 4),
                    NoDigitAfter>>],
     [region |-> "UK", min_length |-> 10, max_length |-> 15,
      prefix_validator |-> FALSE, confidence |-> 85,
      pattern |-> <<NoDigitBefore, CountryCode(<<"4","4">>),
                    Cls({"0"}, 0, 1), Lit("7"), Cls(DigitChars, 3, 3), Sep,
                    Cls(DigitChars, 6, 6), NoDigitAfter>>],
     [region |-> "SG", min_length |-> 8, max_length |-> 12,
      prefix_validator |-> FALSE, confidence |-> 85,
      pattern |-> <<NoDigitBefore, CountryCode(<<"6","5">>),
                    Cls({"6","8","9"}, 1, 1), Cls(DigitChars, 3, 3), Sep,
                    Cls(DigitChars, 4, 4), NoDigitAfter>>],
     [region |-> "MY", min_length |-> 9, max_length |-> 12,
      prefix_validator |-> FALSE, confidence |-> 85,
      pattern |-> <<NoDigitBefore, CountryCode(<<"6","0">>), Lit("1"),
                    Cls(DigitChars, 1, 1), Sep, Cls(DigitChars, 3, 4), Sep,
                    Cls(DigitChars, 4, 4), NoDigitAfter>>],
     [region |-> "AU", min_length |-> 9, max_length |-> 12,
      prefix_validator |-> FALSE, confidence |-> 85,
      pattern |-> <<NoDigitBefore, CountryCode(<<"6","1">>),
                    Cls({"0"}, 0, 1), Lit("4"), Cls(DigitChars, 2, 2), Sep,
                    Cls(DigitChars, 3, 3), Sep, Cls(DigitChars, 3, 3),
                    NoDigitAfter>>],
     [region |-> "NZ", min_length |-> 9, max_length |-> 12,
      prefix_validator |-> FALSE, confidence |-> 85,
      pattern |-> <<NoDigitBefore, CountryCode(<<"6","4">>),
                    Cls({"0"}, 0, 1), Lit("2"), Cls(DigitChars, 1, 1), Sep,
                    Cls(DigitChars, 3, 3), Sep, Cls(DigitChars, 4, 4),
                    NoDigitAfter>>],
     [region |-> "JP", min_length |-> 10, max_length |-> 13,
      prefix_validator |-> FALSE, confidence |-> 85,
      pattern |-> <<NoDigitBefore, CountryCode(<<"8","1">>),
                    Cls({"0"}, 0, 1),
                    Alt(<< <<Lit("7"), Lit("0")>>, <<Lit("8"), Lit("0")>>,
                           <<Lit("9"), Lit("0")>> >>), Sep,
                    Cls(DigitChars, 4, 4), Sep, Cls(DigitChars, 4, 4),
                    NoDigitAfter>>],
     [region |-> "KR", min_length |-> 10, max_length |-> 13,
      prefix_validator |-> FALSE, confidence |-> 85,
      pattern |-> <<NoDigitBefore, CountryCode(<<"8","2">>),
                    Cls({"0"}, 0, 1), Lit("1"), Cls(DigitChars, 1, 1), Sep,
                    Cls(DigitChars, 3, 4), Sep, Cls(DigitChars, 4, 4),
                    NoDigitAfter>>],
     [region |-> "IN", min_length |-> 10, max_length |-> 12,
      prefix_validator |-> FALSE, confidence |-> 85,
      pattern |-> <<NoDigitBefore, CountryCode(<<"9","1">>),
                    Cls({"6","7","8","9"}, 1, 1), Cls(DigitChars, 4, 4), Sep,
                    Cls(DigitChars, 5, 5), NoDigitAfter>>] >>

\* re.sub(r'[\s\-\+\(\)]', '', raw_match)
CleanNum(raw) ==
  SelectSeq(raw, LAMBDA c : c \notin (SpaceChars \cup {"-", "+", "(", ")"}))

\* InternationalPhoneRecognizer.analyze
PhoneAnalyze(s) ==
  Flatten([r \in 1..Len(PHONE_PATTERNS) |->
    LET config == PHONE_PATTERNS[r]
        ms == finditer(s, config.pattern)
        Accepted(m) ==
          LET clean_num == CleanNum(Slice(s, m.start, m.end))
          IN  /\ config.min_length <= Len(clean_num)
              /\ Len(clean_num) <= config.max_length
              /\ config.prefix_validator
                   => Str(Slice(clean_num, 0, 3)) \in cn_prefixes
    IN  [k \in 1..Len(SelectSeq(ms, Accepted)) |->
           Result("PHONE_NUMBER", SelectSeq(ms, Accepted)[k].start,
                  SelectSeq(ms, Accepted)[k].end, config.confidence)]])

\* SurnameManager.is_surname
is_surname(word) ==
  LET w_lower == Str(lower(word))
  IN  IF w_lower \in blacklist THEN FALSE
      ELSE w_lower \in single_surnames \/ w_lower \in compound_surnames

\* \b([A-Z][a-z]+)\s+([A-Z][a-z]+)\b
TwoCapitalized ==
  <<WordB, Cls(UpperChars, 1, 1), Cls(LowerChars, 1, NoLimit),
    Cls(SpaceChars, 1, NoLimit),
    Cls(UpperChars, 1, 1), Cls(LowerChars, 1, NoLimit), WordB>>

\* SurnameManager.detect_names; group(1) and group(2) are the two words
detect_names(s) ==
  LET ms == finditer(s, TwoCapitalized)
      Words(m) == split(Slice(s, m.start, m.end))
      BySurname(m) == is_surname(Words(m)[1]) \/ is_surname(Words(m)[2])
      ByCompound(m) == Str(lower(Words(m)[1])) \in compound_surnames
      Person(m, score) == Result("PERSON", m.start, m.end, score)
  IN  [k \in 1..Len(SelectSeq(ms, BySurname)) |->
         Person(SelectSeq(ms, BySurname)[k], 85)]
      \o [k \in 1..Len(SelectSeq(ms, ByCompound)) |->
            Person(SelectSeq(ms, ByCompound)[k], 90)]

\* the patterns _register_custom_recognizers adds to the analyzer, which
\* compiles them with re.IGNORECASE: [A-Z] matches a-z as well
FlightNumberPattern ==
  <<WordB,
    Alt(<< <<Cls(LetterChars, 2, 2)>>,
           <<Cls(LetterChars, 1, 1), Cls(DigitChars, 1, 1)>>,
           <<Cls(DigitChars, 1, 1), Cls(LetterChars, 1, 1)>> >>),
    Cls(SpaceChars, 0, 1), Cls(DigitChars, 3, 4), WordB>>
PNRPattern == <<WordB, Cls(AlnumChars, 5, 6), WordB>>
TicketNumberPattern ==
  <<WordB, Cls(DigitChars, 3, 3), Cls({"-"}, 0, 1), Cls(DigitChars, 10, 10),
    WordB>>
FrequentFlyerPattern ==
  <<WordB, Ahead(<<Cls(AlnumChars, 0, NoLimit), Cls(DigitChars, 1, 1)>>),
    Cls(AlnumChars, 5, 12), WordB>>
airline_patterns ==
  << [entity_label |-> "Flight Number", regex |-> FlightNumberPattern, score |-> 60],
     [entity_label |-> "PNR", regex |-> PNRPattern, score |-> 40],
     [entity_label |-> "Ticket Number", regex |-> TicketNumberPattern, score |-> 60],
     [entity_label |-> "Frequent Flyer", regex |-> FrequentFlyerPattern, score |-> 50] >>

\* what the four registered PatternRecognizers report on s
PatternResults(s) ==
  Flatten([r \in 1..Len(airline_patterns) |->
    LET ms == finditer(s, airline_patterns[r].regex)
    IN  [k \in 1..Len(ms) |->
           Result(airline_patterns[r].entity_label, ms[k].start, ms[k].end,
                  airline_patterns[r].score)]])

\* (?<!\d)\d{13}(?!\d), step 5 of redact
StickyTickets(s) ==
  LET ms == finditer(s, <<NoDigitBefore, Cls(DigitChars, 13, 13), NoDigitAfter>>)
  IN  [k \in 1..Len(ms) |-> Result("Ticket Number", ms[k].start, ms[k].end, 90)]

\* the surname list _get_custom_chinese_names rebuilds
RebuiltSurnames ==
  chinese_surnames
    \o SelectSeq(trad_additions,
                 LAMBDA x : \A i \in 1..Len(chinese_surnames) : chinese_surnames[i] # x)
\* sorted(surnames, key=len, reverse=True): a stable sort, longest first
SurnamesByLength ==
  SelectSeq(RebuiltSurnames, LAMBDA x : Len(x) = 2)
    \o SelectSeq(RebuiltSurnames, LAMBDA x : Len(x) = 1)
ChineseNamePattern ==
  <<Alt([i \in 1..Len(SurnamesByLength) |->
           [j \in 1..Len(SurnamesByLength[i]) |-> Lit(SurnamesByLength[i][j])]]),
    Cls(CJKChars, 1, 2)>>
\* _get_custom_chinese_names: the matches, each of type REGEX_NAME
CustomChineseNames(s) == finditer(s, ChineseNamePattern)

----------------------------------------------------------------------------
(* The validators of step 7.                                               *)

\* the window the context checks scan
window == 30

\* a variant of Snippet that reaches one character less far
SnippetNarrow(s, start, end) ==
  lower(Slice(s, Max(0, start - (window - 1)), Min(Len(s), end + (window - 1))))

\* a variant of Snippet that leaves the candidate itself out
SnippetAround(s, start, end) ==
  lower(Slice(s, Max(0, start - window), start)) \o <<".">>
    \o lower(Slice(s, end, Min(Len(s), end + window)))

\* text[left:right].lower() around [start, end)
Snippet(s, start, end) ==
  lower(Slice(s, Max(0, start - window), Min(Len(s), end + window)))

\* a variant of is_valid_pnr that looks at the context before the blacklist
PnrContextFirst(s, entity_text, start, end) ==
  IF \E k \in pnr_context_keywords : Contains(Snippet(s, start, end), k) THEN TRUE
  ELSE IF Str(upper(entity_text)) \in pnr_blacklist THEN FALSE
  ELSE IF isalpha(entity_text) /\ ~isupper(entity_text) THEN FALSE
  ELSE AnyDigit(entity_text)

is_valid_pnr(s, entity_text, start, end) ==
  IF Str(upper(entity_text)) \in pnr_blacklist THEN FALSE
  ELSE IF isalpha(entity_text) /\ ~isupper(entity_text) THEN FALSE
  ELSE IF AnyDigit(entity_text) THEN TRUE
  ELSE \E k \in pnr_context_keywords : Contains(Snippet(s, start, end), k)

\* a variant of is_valid_flight_number that does not look at the case
FlightNumberAnyCase(entity_text) == split(entity_text) # <<>>

is_valid_flight_number(entity_text) ==
  IF split(entity_text) = <<>> THEN FALSE
  ELSE IF AnyLower(entity_text) THEN FALSE
  ELSE TRUE

\* a variant of is_valid_frequent_flyer that lets digits alone through
FrequentFlyerDigitsToo(entity_text) == ~AnyLower(entity_text)

is_valid_frequent_flyer(entity_text) ==
  IF AnyLower(entity_text) THEN FALSE
  ELSE IF isdigit(entity_text) THEN FALSE
  ELSE TRUE

\* what the lenient parser (dateutil) answers when it cannot parse
ParseFailure == 0 - 1

DigitValue(c) == CHOOSE d \in 0..9 : <<"0","1","2","3","4","5","6","7","8","9">>[d + 1] = c
RECURSIVE ToInt(_)
ToInt(ds) ==
  IF ds = <<>> THEN 0
  ELSE 10 * ToInt(SubSeq(ds, 1, Len(ds) - 1)) + DigitValue(ds[Len(ds)])
IsLeap(y) == (y % 4 = 0 /\ y % 100 # 0) \/ y % 400 = 0
DaysIn(m, y) ==
  IF m = 2 THEN (IF IsLeap(y) THEN 29 ELSE 28)
  ELSE IF m \in {4, 6, 9, 11} THEN 30 ELSE 31
\* datetime accepts the fields
ValidDate(y, m, d) == y >= 1 /\ m >= 1 /\ m <= 12 /\ d >= 1 /\ d <= DaysIn(m, y)
\* datetime.strptime on eight digits: the year of the date, or ParseFailure
\* when strptime raises ValueError
StrptimeMDY(ds) ==
  LET m == ToInt(Slice(ds, 0, 2)) d == ToInt(Slice(ds, 2, 4)) y == ToInt(Slice(ds, 4, 8))
  IN  IF ValidDate(y, m, d) THEN y ELSE ParseFailure
StrptimeDMY(ds) ==
  LET d == ToInt(Slice(ds, 0, 2)) m == ToInt(Slice(ds, 2, 4)) y == ToInt(Slice(ds, 4, 8))
  IN  IF ValidDate(y, m, d) THEN y ELSE ParseFailure
StrptimeYMD(ds) ==
  LET y == ToInt(Slice(ds, 0, 4)) m == ToInt(Slice(ds, 4, 6)) d == ToInt(Slice(ds, 6, 8))
  IN  IF ValidDate(y, m, d) THEN y ELSE ParseFailure

\* a variant of ParsedYear that tries year-month-day first
ParsedYearYmdFirst(date_text, fuzzy_year) ==
  IF Len(date_text) = 8 /\ isdigit(date_text)
    THEN IF StrptimeYMD(date_text) # ParseFailure THEN StrptimeYMD(date_text)
         ELSE IF StrptimeMDY(date_text) # ParseFailure THEN StrptimeMDY(date_text)
         ELSE StrptimeDMY(date_text)
    ELSE fuzzy_year

\* the year of dt in is_likely_dob, or ParseFailure; fuzzy_year is what
\* parser.parse(clean_text, fuzzy=True) answers for this text
ParsedYear(date_text, fuzzy_year) ==
  IF Len(date_text) = 8 /\ isdigit(date_text)
    THEN IF StrptimeMDY(date_text) # ParseFailure THEN StrptimeMDY(date_text)
         ELSE IF StrptimeDMY(date_text) # ParseFailure THEN StrptimeDMY(date_text)
         ELSE StrptimeYMD(date_text)
    ELSE fuzzy_year

\* a variant of is_likely_dob without the test of the last two years
LikelyDobWithoutRecent(date_text, current_year, fuzzy_year) ==
  LET year == ParsedYear(date_text, fuzzy_year)
  IN  year # ParseFailure /\ 1900 < year /\ year <= current_year - 2

is_likely_dob(date_text, current_year, fuzzy_year) ==
  LET year == ParsedYear(date_text, fuzzy_year)
  IN  IF year = ParseFailure THEN FALSE
      ELSE IF year > current_year THEN FALSE
      ELSE IF current_year - year <= 2 THEN FALSE
      ELSE IF 1900 < year /\ year <= current_year - 2 THEN TRUE
      ELSE FALSE

\* a variant of KeepsPerson that also drops a score equal to the threshold
KeepsPersonAbove(entity_text, score) ==
  ~ ( /\ Len(split(entity_text)) = 1
      /\ Str(lower(entity_text)) \in common_single_words
      /\ score <= 60 )

\* the PERSON branch: FALSE when the loop takes `continue`
KeepsPerson(entity_text, score) ==
  ~ ( /\ Len(split(entity_text)) = 1
      /\ Str(lower(entity_text)) \in common_single_words
      /\ score < 60 )

\* clean_text of is_likely_dob: what the lenient parser is given
clean_text(date_text) == strip(CollapseWhitespace(date_text))

\* a variant of Validated that drops the kinds the loop has no branch for
ValidatedListedOnly(s, res, current_year, lenient) ==
  LET entity_text == strip(Slice(s, res.start, res.end))
  IN  CASE res.type = "DATE_TIME" ->
             is_likely_dob(entity_text, current_year, lenient[clean_text(entity_text)])
        [] res.type = "PNR" -> is_valid_pnr(s, entity_text, res.start, res.end)
        [] res.type = "Flight Number" -> is_valid_flight_number(entity_text)
        [] res.type = "Frequent Flyer" ->
             /\ is_valid_frequent_flyer(entity_text)
             /\ \E k \in context_keywords : Contains(Snippet(s, res.start, res.end), k)
        [] res.type = "PERSON" -> KeepsPerson(entity_text, res.score)
        [] OTHER -> FALSE

\* one turn of the loop of step 7: whether res is appended to final_results.
\* lenient is what parser.parse(clean_text, fuzzy=True) answers in this call,
\* text by text: each DATE_TIME candidate is parsed on its own.
Validated(s, res, current_year, lenient) ==
  LET entity_text == strip(Slice(s, res.start, res.end))
  IN  CASE res.type = "DATE_TIME" ->
             is_likely_dob(entity_text, current_year, lenient[clean_text(entity_text)])
        [] res.type = "PNR" -> is_valid_pnr(s, entity_text, res.start, res.end)
        [] res.type = "Flight Number" -> is_valid_flight_number(entity_text)
        [] res.type = "Frequent Flyer" ->
             /\ is_valid_frequent_flyer(entity_text)
             /\ \E k \in context_keywords : Contains(Snippet(s, res.start, res.end), k)
        [] res.type = "PERSON" -> KeepsPerson(entity_text, res.score)
        [] OTHER -> TRUE

\* step 7: final_results
FilterAndRefine(s, combined, current_year, lenient) ==
  SelectSeq(combined, LAMBDA res : Validated(s, res, current_year, lenient))

\* the texts of the DATE_TIME candidates of combined, as is_likely_dob
\* cleans them
DatePhrases(s, combined) ==
  { clean_text(strip(Slice(s, combined[i].start, combined[i].end))) :
      i \in {j \in 1..Len(combined) : combined[j].type = "DATE_TIME"} }

----------------------------------------------------------------------------
(* Step 8: the operator table and the anonymizer engine redact calls.      *)

\* the new_value strings of the operator table
tags ==
  [ name |-> <<"[","N","A","M","E","]">>,
    phone |-> <<"[","P","h","o","n","e","]">>,
    dob |-> <<"[","D","O","B","]">>,
    email |-> <<"[","E","m","a","i","l","]">>,
    payment |-> <<"[","P","a","y","m","e","n","t","]">>,
    id |-> <<"[","I","D","]">>,
    pnr |-> <<"[","P","N","R","]">>,
    flight |-> <<"[","F","l","i","g","h","t"," ","n","o","]">>,
    ticket |-> <<"[","T","i","c","k","e","t"," ","n","o","]">>,
    frequent_flyer |-> <<"[","F","r","e","q","u","e","n","t"," ","F","l","y","e","r","]">> ]

Replace(new_value) == [operator_name |-> "replace", new_value |-> new_value]
Keep == [operator_name |-> "keep", new_value |-> <<>>]

\* self.anonymizer_operators
anonymizer_operators ==
  ("PERSON" :> Replace(tags.name)) @@ ("PHONE_NUMBER" :> Replace(tags.phone)) @@
  ("DATE_TIME" :> Replace(tags.dob)) @@ ("EMAIL_ADDRESS" :> Replace(tags.email)) @@
  ("US_BANK_NUMBER" :> Replace(tags.payment)) @@ ("UK_NHS" :> Replace(tags.id)) @@
  ("US_DRIVER_LICENSE" :> Replace(tags.id)) @@ ("PNR" :> Replace(tags.pnr)) @@
  ("Flight Number" :> Replace(tags.flight)) @@
  ("Ticket Number" :> Replace(tags.ticket)) @@
  ("Frequent Flyer" :> Replace(tags.frequent_flyer)) @@
  ("CREDIT_CARD" :> Replace(tags.payment))

\* ops: the copy of the table with the four keep operators added
ops ==
  ("ORGANIZATION" :> Keep) @@ ("LOCATION" :> Keep) @@ ("GPE" :> Keep) @@
  ("NRP" :> Keep) @@ anonymizer_operators

\* the spelling of the entity kinds that have no operator in ops
EntityTypeText ==
  ("URL" :> <<"U","R","L">>) @@ ("IP_ADDRESS" :> <<"I","P","_","A","D","D","R","E","S","S">>)

\* the engine's DEFAULT operator: replace without new_value writes <KIND>
DefaultReplacement(entity_type) == <<"<">> \o EntityTypeText[entity_type] \o <<">">>

\* a variant of OperateOnText whose keep operator writes nothing
KeepWritesNothing(res, original) ==
  IF res.type \in DOMAIN ops
    THEN IF ops[res.type].operator_name = "keep" THEN <<>>
         ELSE ops[res.type].new_value
    ELSE DefaultReplacement(res.type)

\* what the operator chosen for res writes in place of original
OperateOnText(res, original) ==
  IF res.type \in DOMAIN ops
    THEN IF ops[res.type].operator_name = "keep" THEN original
         ELSE ops[res.type].new_value
    ELSE DefaultReplacement(res.type)

\* RecognizerResult.intersects
Intersects(a, b) ==
  IF a.end < b.start \/ b.end < a.start THEN 0
  ELSE Min(a.end, b.end) - Max(a.start, b.start)
equal_indices(a, b) == a.start = b.start /\ a.end = b.end
\* a.contains(b)
ContainsSpan(a, b) == a.start <= b.start /\ a.end >= b.end
\* a variant of has_conflict in which the lower score wins a range
HasConflictLowerWins(a, b) ==
  IF equal_indices(a, b) THEN a.score >= b.score ELSE ContainsSpan(b, a)
\* a.has_conflict(b)
has_conflict(a, b) ==
  IF equal_indices(a, b) THEN a.score <= b.score ELSE ContainsSpan(b, a)

RECURSIVE MergeSameType(_, _, _)
\* First loop of the engine's conflict removal over arr from index i on:
\* a result that intersects another of its kind (the results not yet
\* visited, then the ones kept so far) is folded into the first such one.
\* kept lists the indices kept, in order.
MergeSameType(arr, i, kept) ==
  IF i > Len(arr) THEN [k \in 1..Len(kept) |-> arr[kept[k]]]
  ELSE LET others == [j \in 1..(Len(arr) - i) |-> i + j] \o kept
           hits == SelectSeq(others, LAMBDA j :
                     arr[j].type = arr[i].type /\ Intersects(arr[i], arr[j]) # 0)
       IN  IF hits = <<>> THEN MergeSameType(arr, i + 1, Append(kept, i))
           ELSE LET j == hits[1]
                    merged == [arr[j] EXCEPT
                                 !.start = Min(arr[i].start, arr[j].start),
                                 !.end = Max(arr[i].end, arr[j].end),
                                 !.score = Max(arr[i].score, arr[j].score)]
                IN  MergeSameType([arr EXCEPT ![j] = merged], i + 1, kept)

RECURSIVE RemoveConflicted(_, _, _)
\* Second loop: a result is dropped when it conflicts with any other result
\* (not yet visited, or kept so far).
RemoveConflicted(arr, i, kept) ==
  IF i > Len(arr) THEN [k \in 1..Len(kept) |-> arr[kept[k]]]
  ELSE LET others == [j \in 1..(Len(arr) - i) |-> i + j] \o kept
       IN  IF \E k \in 1..Len(others) : has_conflict(arr[i], arr[others[k]])
             THEN RemoveConflicted(arr, i + 1, kept)
             ELSE RemoveConflicted(arr, i + 1, Append(kept, i))

remove_conflicts(analyzer_results) ==
  RemoveConflicted(MergeSameType(analyzer_results, 1, <<>>), 1, <<>>)

\* re.search(r"^( )+$", s): spaces, then at most one final newline
OnlySpaces(s) ==
  LET body == IF s # <<>> /\ s[Len(s)] = "\n" THEN SubSeq(s, 1, Len(s) - 1) ELSE s
  IN  body # <<>> /\ \A i \in 1..Len(body) : body[i] = " "

\* list.remove(x): drops the first element equal to x
RemoveFirst(list, x) ==
  LET is == {i \in 1..Len(list) : list[i] = x}
      first == CHOOSE i \in is : \A j \in is : i <= j
  IN  IF is = {} THEN list
      ELSE SubSeq(list, 1, first - 1) \o SubSeq(list, first + 1, Len(list))

RECURSIVE MergeWhitespace(_, _, _, _)
\* Two results of one kind with only spaces between them become one; prev
\* is <<>> before the first result and <<previous result>> after.
MergeWhitespace(s, list, prev, merged) ==
  IF list = <<>> THEN merged
  ELSE LET result == list[1]
           joins == /\ prev # <<>>
                    /\ prev[1].type = result.type
                    /\ OnlySpaces(Slice(s, prev[1].end, result.start))
           result2 == IF joins THEN [result EXCEPT !.start = prev[1].start] ELSE result
           merged2 == IF joins THEN RemoveFirst(merged, prev[1]) ELSE merged
       IN  MergeWhitespace(s, Tail(list), <<result2>>, Append(merged2, result2))

\* a sorts after b in sorted(pii_entities, reverse=True)
Greater(a, b) == IF a.start = b.start THEN a.end > b.end ELSE a.start > b.start

RECURSIVE SortedReverse(_)
\* insertion into the sorted tail, equal elements keeping their order
SortedReverse(list) ==
  IF list = <<>> THEN <<>>
  ELSE LET rest == SortedReverse(Tail(list))
           n == Cardinality({i \in 1..Len(rest) : Greater(rest[i], list[1])})
       IN  SubSeq(rest, 1, n) \o <<list[1]>> \o SubSeq(rest, n + 1, Len(rest))

RECURSIVE Operate(_, _, _, _)
\* The replacement loop from the last span to the first.  out is the text
\* built so far and last the start of the previous replacement.  A span
\* outside the text makes the engine raise (ok is FALSE).
Operate(s, ents, out, last) ==
  IF ents = <<>> THEN [ok |-> TRUE, text |-> out]
  ELSE LET e == ents[1] IN
       IF Len(s) < e.start \/ e.end > Len(s) THEN [ok |-> FALSE, text |-> out]
       ELSE LET changed == OperateOnText(e, Slice(s, e.start, e.end))
                end_of_text == Min(e.end, last)
            IN  Operate(s, Tail(ents),
                        Slice(out, 0, e.start) \o changed \o Slice(out, end_of_text, Len(out)),
                        e.start)

RECURSIVE SortedByStart(_)
\* sorted(results, key=start), equal starts keeping their order
SortedByStart(list) ==
  IF list = <<>> THEN <<>>
  ELSE LET rest == SortedByStart(Tail(list))
           n == Cardinality({i \in 1..Len(rest) : rest[i].start < list[1].start})
       IN  SubSeq(rest, 1, n) \o <<list[1]>> \o SubSeq(rest, n + 1, Len(rest))

\* The results the engine applies, in the order it applies them.  Releases
\* of the engine differ in whether the whitespace merge walks the results
\* in list order or sorted by start; sorts says which one is installed.
Applied(s, results, sorts) ==
  LET unique == remove_conflicts(results)
  IN  SortedReverse(MergeWhitespace(s, IF sorts THEN SortedByStart(unique) ELSE unique,
                                    <<>>, <<>>))

\* self.anonymizer.anonymize(text, final_results, ops)
anonymize(s, results, sorts) == Operate(s, Applied(s, results, sorts), s, Len(s))

----------------------------------------------------------------------------
(* _normalize_output                                                       *)

\* a variant of SpaceBeforeTag that rewrites the first match only (count=1)
SpaceBeforeFirstTag(s) ==
  LET all == finditer(s, <<Cls(AlnumChars, 1, 1), Lit("[")>>)
      ms == SubSeq(all, 1, Min(1, Len(all)))
  IN  Rebuild(s, ms, [k \in 1..Len(ms) |-> <<s[ms[k].start + 1], " ", "[">>], 1)
\* re.sub(r'([A-Za-z0-9])(\[)', r'\1 \2', s)
SpaceBeforeTag(s) ==
  LET ms == finditer(s, <<Cls(AlnumChars, 1, 1), Lit("[")>>)
  IN  Rebuild(s, ms, [k \in 1..Len(ms) |-> <<s[ms[k].start + 1], " ", "[">>], 1)
\* re.sub(r'(\])([A-Za-z0-9])', r'\1 \2', s)
SpaceAfterTag(s) ==
  LET ms == finditer(s, <<Lit("]"), Cls(AlnumChars, 1, 1)>>)
  IN  Rebuild(s, ms, [k \in 1..Len(ms) |-> <<"]", " ", s[ms[k].end]>>], 1)

\* a variant of _normalize_output that returns its argument
NormalizeNothing(s) == s
_normalize_output(s) ==
  strip(CollapseWhitespace(SpaceAfterTag(SpaceBeforeTag(s))))

----------------------------------------------------------------------------
(* Steps 1 to 6: what the detectors report.                                *)

\* bounds of the inputs
MaxWords == 2
MaxNer == 2
Overrun == 1

\* the words of the input texts: a token that has the flight-number and the
\* PNR shape, a romanized surname, a Chinese name, and the empty word
\* (which puts spaces at the ends of a text or next to each other)
Vocabulary ==
  { <<"A","A","1","2","3">>, <<"L","i">>, <<"U674E","U660E">>, <<>> }

RECURSIVE Join(_)
\* " ".join(ws)
Join(ws) ==
  IF Len(ws) = 0 THEN <<>>
  ELSE IF Len(ws) = 1 THEN ws[1]
  ELSE ws[1] \o <<" ">> \o Join(Tail(ws))

\* the texts of the calls: up to MaxWords words, and one text of two dates,
\* a birth date and a date to come
InputTexts ==
  UNION { {Join(ws) : ws \in [1..n -> Vocabulary]} : n \in 1..MaxWords }
    \cup { <<"1","9","9","0","-","0","5","-","2","0"," ",
             "2","0","3","0","-","0","1","-","0","1">> }

\* the ranges [start, end) of s that begin and end at token boundaries: a
\* token begins after a space or an opening bracket, and ends before a
\* space or before the punctuation that closes the word
TokenSpans(s) ==
  LET opening == {" ", "[", "("}
      closing == {".", ",", ";", ":", "!", "?", "]", ")"}
      starts == {i \in 0..(Len(s) - 1) :
                   s[i + 1] \notin opening /\ (i = 0 \/ s[i] \in opening)}
      ends == {j \in 1..Len(s) :
                 /\ s[j] \notin {" "} \cup closing
                 /\ \E k \in j..Len(s) :
                      /\ \A m \in (j + 1)..k : s[m] \in closing
                      /\ (k = Len(s) \/ s[k + 1] = " ")}
  IN  {sp \in starts \X ends : sp[1] < sp[2]}
\* the tokens of s: the spans without a space inside
Tokens(s) == {sp \in TokenSpans(s) : \A i \in (sp[1] + 1)..sp[2] : s[i] # " "}

\* kinds and scores the statistical recognizer of the analyzer may report
\* on any run of tokens
NerKinds ==
  { [type |-> "PERSON", score |-> 85], [type |-> "LOCATION", score |-> 85],
    [type |-> "DATE_TIME", score |-> 85] }
\* kinds and scores the predefined pattern recognizers of the analyzer
\* report, each on a literal of its shape only: a name with a dot and a
\* domain ending, an address with an @ inside, 13 to 19 digits in groups,
\* 7 to 15 digits written as a phone number
ShapedKinds(literal) ==
  LET digits == Cardinality({i \in 1..Len(literal) : literal[i] \in DigitChars})
      MadeOf(cs) == literal # <<>> /\ \A i \in 1..Len(literal) : literal[i] \in cs
      unbroken == \A i \in 1..Len(literal) : literal[i] # " "
  IN  (IF /\ unbroken
          /\ \E i \in 2..(Len(literal) - 2) :
               /\ literal[i] = "." /\ literal[i - 1] \in AlnumChars
               /\ literal[i + 1] \in LowerChars /\ literal[i + 2] \in LowerChars
         THEN {[type |-> "URL", score |-> 50]} ELSE {})
      \cup (IF unbroken /\ \E i \in 2..(Len(literal) - 1) : literal[i] = "@"
              THEN {[type |-> "EMAIL_ADDRESS", score |-> 100]} ELSE {})
      \cup (IF MadeOf(DigitChars \cup {" ", "-"}) /\ digits \in 13..19
              THEN {[type |-> "CREDIT_CARD", score |-> 100]} ELSE {})
      \cup (IF MadeOf(DigitChars \cup {" ", "-", ".", "+", "(", ")"}) /\ digits \in 7..15
              THEN {[type |-> "PHONE_NUMBER", score |-> 40]} ELSE {})
NerCandidates(s) ==
  UNION { {Result(k.type, sp[1], sp[2], k.score) :
             k \in NerKinds \cup ShapedKinds(Slice(s, sp[1], sp[2]))} :
          sp \in TokenSpans(s) }

RECURSIVE SetToSeq(_)
SetToSeq(S) ==
  IF S = {} THEN <<>>
  ELSE LET x == CHOOSE x \in S : TRUE IN <<x>> \o SetToSeq(S \ {x})

\* a is contained in b
contained_in(a, b) == a.start >= b.start /\ a.end <= b.end

\* the key the analyzer sorts its results by: a goes before b
Before(a, b) ==
  IF a.score # b.score THEN a.score > b.score
  ELSE IF a.start # b.start THEN a.start < b.start
  ELSE (a.end - a.start) > (b.end - b.start)

RECURSIVE SortedResults(_)
SortedResults(list) ==
  IF list = <<>> THEN <<>>
  ELSE LET rest == SortedResults(Tail(list))
           n == Cardinality({i \in 1..Len(rest) : Before(rest[i], list[1])})
       IN  SubSeq(rest, 1, n) \o <<list[1]>> \o SubSeq(rest, n + 1, Len(rest))

RECURSIVE FilterDuplicates(_, _)
\* a result equal to, or contained in, a result of its kind already kept
\* is dropped
FilterDuplicates(list, filtered) ==
  IF list = <<>> THEN filtered
  ELSE LET result == list[1]
           to_keep == /\ result.score # 0
                      /\ \A i \in 1..Len(filtered) :
                           ~ (contained_in(result, filtered[i])
                              /\ result.type = filtered[i].type)
       IN  FilterDuplicates(Tail(list), IF to_keep THEN Append(filtered, result) ELSE filtered)

score_threshold == 40

\* self.analyzer.analyze(text, language='en', score_threshold=0.4) when it
\* returns: the results pattern_results of the four registered patterns and
\* the candidates ner of the statistical recognizers, as the analyzer
\* orders, de-duplicates and thresholds them
analyze(pattern_results, ner) ==
  SelectSeq(FilterDuplicates(SortedResults(pattern_results \o SetToSeq(ner)), <<>>),
            LAMBDA r : r.score >= score_threshold)

RECURSIVE DisjointReports(_, _, _)
\* the sets of at most n of the candidates that begin at from or later and
\* do not overlap one another, each set built from its leftmost result
DisjointReports(candidates, from, n) ==
  IF n = 0 THEN {{}}
  ELSE {{}} \cup UNION { { {r} \cup rest : rest \in DisjointReports(candidates, r.end, n - 1) } :
                         r \in {c \in candidates : c.start >= from} }

\* what the predefined recognizers may report for s: at most MaxNer results.
\* The results of the statistical recognizer are the entities of one
\* labelling of the tokens, so no two of them share a character; the
\* results of the pattern recognizers may lie over them and over one
\* another.
NerReports(s) ==
  LET statistical == {c \in NerCandidates(s) :
                        [type |-> c.type, score |-> c.score] \in NerKinds}
      shaped == NerCandidates(s) \ statistical
  IN  UNION { {labelled \cup matched :
                 matched \in {m \in SUBSET shaped :
                                Cardinality(labelled \cup m) <= MaxNer}} :
              labelled \in DisjointReports(statistical, 0, MaxNer) }

\* What self.hanlp_ner(tokens) may answer for s: it raises, or it returns
\* at most one item (entity_text, label, start, end) on a token of s, whose
\* end is the end of the token or lies Overrun characters past it.
HanlpLabels == {"NR", "NS"}
HanlpItems(s) ==
  { [text |-> Slice(s, tk[1], tk[2]), label |-> l, start |-> tk[1], end |-> tk[2] + d] :
      tk \in Tokens(s), l \in HanlpLabels, d \in {0, Overrun} }
HanlpAnswers(s) ==
  {[raises |-> TRUE, items |-> <<>>], [raises |-> FALSE, items |-> <<>>]}
    \cup {[raises |-> FALSE, items |-> <<it>>] : it \in HanlpItems(s)}

\* _get_hanlp_entities(text), given what the model answers
_get_hanlp_entities(ner_model, answer) ==
  IF ner_model = "absent" THEN <<>>
  ELSE IF answer.raises THEN <<>>
  ELSE SelectSeq(answer.items, LAMBDA item : item.label \in {"NR", "PERSON", "PER"})

\* re.search(r'[a-zA-Z]', s) finds something
HasLatin(s) == \E i \in 1..Len(s) : s[i] \in UpperChars \cup LowerChars

\* a variant of ChineseResults in which the surname pattern is used only
\* together with results of the statistical detector
ChineseResultsNeedHanlp(hanlp_raw, custom_raw) ==
  IF hanlp_raw = <<>> THEN <<>>
  ELSE [k \in 1..(Len(hanlp_raw) + Len(custom_raw)) |->
          IF k <= Len(hanlp_raw)
            THEN Result("PERSON", hanlp_raw[k].start, hanlp_raw[k].end, 90)
            ELSE Result("PERSON", custom_raw[k - Len(hanlp_raw)].start,
                        custom_raw[k - Len(hanlp_raw)].end, 90)]

\* step 3: chinese_results
ChineseResults(hanlp_raw, custom_raw) ==
  LET hanlp_entities == SelectSeq(hanlp_raw, LAMBDA e : ~HasLatin(e.text))
      all == [k \in 1..Len(hanlp_entities) |->
                [start |-> hanlp_entities[k].start, end |-> hanlp_entities[k].end]]
             \o [k \in 1..Len(custom_raw) |->
                [start |-> custom_raw[k].start, end |-> custom_raw[k].end]]
  IN  [k \in 1..Len(all) |-> Result("PERSON", all[k].start, all[k].end, 90)]

\* step 6: combined_results
Combined(results, phone_results, chinese_results, romanized_results, sticky_tickets) ==
  results \o phone_results \o chinese_results \o romanized_results \o sticky_tickets

----------------------------------------------------------------------------
(* One call of redact(text), step by step.                                 *)

\* a variant of ExceptReturn that returns what step 8 had built
PartialReturn(original, partial) == partial
\* what the except clause of step 8 returns: the argument of redact, not
\* the text step 8 had built when it raised
ExceptReturn(original, partial) == original

\* datetime.now().year during the call
CurrentYears == {2026}
\* the years parser.parse(clean_text, fuzzy=True) may answer for a text, with
\* ParseFailure for the exception it raises (dateutil is not part of the
\* repository: the set holds every year the parser can come to, not the one
\* it picks).  A text that is a valid date written year-month-day has the
\* year it names.  In any other text the parser raises, or takes the year
\* from today's date, or from a number written in the text: a run of
\* digits as a whole, or, of a run of more than four digits, the leading
\* four and the pairs of digits; a number below 100, however many zeros
\* lead it, may be read as a year of the hundred years around today
\* (Convert).  A weekday named in the text moves the date forward to that
\* weekday, and so may move it into the next year.  A text without a digit
\* and without the name of a month or a weekday has no date in it.
LenientYears(date_text, current_year) ==
  LET months == { <<"j","a","n">>, <<"j","a","n","u","a","r","y">>,
                  <<"f","e","b">>, <<"f","e","b","r","u","a","r","y">>,
                  <<"m","a","r">>, <<"m","a","r","c","h">>, <<"a","p","r">>,
                  <<"a","p","r","i","l">>, <<"m","a","y">>, <<"j","u","n">>,
                  <<"j","u","n","e">>, <<"j","u","l">>, <<"j","u","l","y">>,
                  <<"a","u","g">>, <<"a","u","g","u","s","t">>,
                  <<"s","e","p">>, <<"s","e","p","t">>,
                  <<"s","e","p","t","e","m","b","e","r">>, <<"o","c","t">>,
                  <<"o","c","t","o","b","e","r">>, <<"n","o","v">>,
                  <<"n","o","v","e","m","b","e","r">>, <<"d","e","c">>,
                  <<"d","e","c","e","m","b","e","r">> }
      weekdays == { <<"m","o","n">>, <<"m","o","n","d","a","y">>,
                    <<"t","u","e">>, <<"t","u","e","s","d","a","y">>,
                    <<"w","e","d">>, <<"w","e","d","n","e","s","d","a","y">>,
                    <<"t","h","u">>, <<"t","h","u","r","s","d","a","y">>,
                    <<"f","r","i">>, <<"f","r","i","d","a","y">>,
                    <<"s","a","t">>, <<"s","a","t","u","r","d","a","y">>,
                    <<"s","u","n">>, <<"s","u","n","d","a","y">> }
      low == lower(date_text)
      Letter(i) == low[i] \in LowerChars
      Digit(i) == low[i] \in DigitChars
      Run(Of(_), a, b) ==
        /\ a < b /\ \A i \in (a + 1)..b : Of(i)
        /\ (a = 0 \/ ~Of(a)) /\ (b = Len(low) \/ ~Of(b + 1))
      spans == (0..Len(low)) \X (0..Len(low))
      words == {Slice(low, sp[1], sp[2]) : sp \in {q \in spans : Run(Letter, q[1], q[2])}}
      numbers == {Slice(low, sp[1], sp[2]) : sp \in {q \in spans : Run(Digit, q[1], q[2])}}
      Convert(n) ==
        LET year == (current_year \div 100) * 100 + n
        IN  IF year >= current_year + 50 THEN year - 100
            ELSE IF year < current_year - 50 THEN year + 100
            ELSE year
      YearOf(n) == IF n < 100 THEN {n, Convert(n)} ELSE {n}
      Pairs(run) ==
        {Slice(run, 2 * k, 2 * k + 2) : k \in 0..((Len(run) \div 2) - 1)}
      Whole(run) ==
        LET lead == IF Len(run) > 4 THEN Len(run) - 4 ELSE 0
        IN  IF \A i \in 1..lead : run[i] = "0"
              THEN YearOf(ToInt(Slice(run, lead, Len(run))))
              ELSE {}
      Read(run) ==
        Whole(run)
          \cup (IF Len(run) <= 4 THEN {}
                ELSE YearOf(ToInt(Slice(run, 0, 4)))
                       \cup UNION {YearOf(ToInt(pair)) : pair \in Pairs(run)})
      iso == /\ Len(low) = 10 /\ low[5] = "-" /\ low[8] = "-"
             /\ \A i \in {1, 2, 3, 4, 6, 7, 9, 10} : Digit(i)
             /\ ValidDate(ToInt(Slice(low, 0, 4)), ToInt(Slice(low, 5, 7)),
                          ToInt(Slice(low, 8, 10)))
      written == UNION {Read(run) : run \in numbers}
      found == IF numbers = {} /\ words \cap (months \cup weekdays) = {}
                 THEN {}
                 ELSE {current_year} \cup {year \in written : year >= 1 /\ year <= 9999}
      moved == IF words \cap weekdays = {} THEN {}
               ELSE {year + 1 : year \in found}
  IN  IF iso THEN YearOf(ToInt(Slice(low, 0, 4)))
      ELSE {ParseFailure} \cup found \cup moved
\* what the lenient date parser may answer during one call, for each text
\* it is given
LenientAnswers(s, combined, current_year) ==
  LET given == DatePhrases(s, combined)
  IN  {lenient \in [given -> UNION {LenientYears(t, current_year) : t \in given}] :
         \A t \in given : lenient[t] \in LenientYears(t, current_year)}

\* a variant of Detectors in which only the call that compiles the surname
\* pattern uses it
DetectorsPatternOnce(t) ==
  [pattern_results |-> PatternResults(t),
   phone_results |-> PhoneAnalyze(t),
   custom_raw |-> IF has_name_pattern THEN <<>> ELSE CustomChineseNames(t),
   romanized_results |-> detect_names(t),
   sticky_tickets |-> StickyTickets(t)]

\* what the detectors that depend on the text alone find in t
Detectors(t) ==
  [pattern_results |-> PatternResults(t),
   phone_results |-> PhoneAnalyze(t),
   custom_raw |-> CustomChineseNames(t),
   romanized_results |-> detect_names(t),
   sticky_tickets |-> StickyTickets(t)]

Init ==
  /\ hanlp_ner \in {"absent", "loaded"}
  /\ merge_sorts \in BOOLEAN
  /\ has_name_pattern = FALSE
  /\ pc = "idle"
  /\ text = <<>>
  /\ combined_results = <<>>
  /\ final_results = <<>>
  /\ output = <<>>
  /\ outcome = "none"

\* steps 1 to 6: the analyzer returns, and the other detectors are run
Detect ==
  /\ pc = "idle"
  /\ \E t \in InputTexts :
       \E found \in {Detectors(t)} :
         \E ner \in NerReports(t) :
           \E answer \in (IF hanlp_ner = "loaded" THEN HanlpAnswers(t)
                          ELSE {[raises |-> FALSE, items |-> <<>>]}) :
             /\ text' = t
             /\ combined_results' =
                  Combined(analyze(found.pattern_results, ner),
                           found.phone_results,
                           ChineseResults(_get_hanlp_entities(hanlp_ner, answer),
                                          found.custom_raw),
                           found.romanized_results,
                           found.sticky_tickets)
  /\ has_name_pattern' = TRUE
  /\ pc' = "refine"
  /\ UNCHANGED <<hanlp_ner, merge_sorts, final_results, output, outcome>>

\* step 1 when self.analyzer.analyze raises: nothing in redact catches it
AnalyzerRaises ==
  /\ pc = "idle"
  /\ \E t \in InputTexts : text' = t
  /\ pc' = "done"
  /\ outcome' = "raised"
  /\ UNCHANGED <<hanlp_ner, merge_sorts, has_name_pattern, combined_results,
                 final_results, output>>

\* step 7
Refine ==
  /\ pc = "refine"
  /\ \E current_year \in CurrentYears :
       \E lenient \in LenientAnswers(text, combined_results, current_year) :
         final_results' = FilterAndRefine(text, combined_results, current_year, lenient)
  /\ pc' = "anonymize"
  /\ UNCHANGED <<hanlp_ner, merge_sorts, has_name_pattern, text, combined_results,
                 output, outcome>>

\* step 8 when nothing raises
Anonymize ==
  /\ pc = "anonymize"
  /\ LET anonymized_result == anonymize(text, final_results, merge_sorts)
     IN  /\ anonymized_result.ok
         /\ output' = _normalize_output(anonymized_result.text)
  /\ pc' = "done"
  /\ outcome' = "returned"
  /\ UNCHANGED <<hanlp_ner, merge_sorts, has_name_pattern, text, combined_results,
                 final_results>>

\* step 8 when the engine or the normalizer raises (the engine does so for
\* a span that lies outside the text): the except clause
AnonymizeFails ==
  /\ pc = "anonymize"
  /\ output' = ExceptReturn(text, anonymize(text, final_results, merge_sorts).text)
  /\ pc' = "done"
  /\ outcome' = "recovered"
  /\ UNCHANGED <<hanlp_ner, merge_sorts, has_name_pattern, text, combined_results,
                 final_results>>

\* the call is over; the next one starts from the attributes of self
Return ==
  /\ pc = "done"
  /\ pc' = "idle"
  /\ text' = <<>>
  /\ combined_results' = <<>>
  /\ final_results' = <<>>
  /\ output' = <<>>
  /\ outcome' = "none"
  /\ UNCHANGED <<hanlp_ner, merge_sorts, has_name_pattern>>

Next == Detect \/ AnalyzerRaises \/ Refine \/ Anonymize \/ AnonymizeFails \/ Return

Spec == Init /\ [][Next]_vars

----------------------------------------------------------------------------
(* _normalize_output applied to a string, and again to its own result.     *)

MaxStrLen == 4

\* a letter, a digit, the two brackets and three kinds of whitespace
NormAlphabet == {"a", "7", "[", "]", " ", "\t", "\f"}
NormStrings == UNION { [1..n -> NormAlphabet] : n \in 0..MaxStrLen }

InitNormalize ==
  /\ hanlp_ner = "absent"
  /\ merge_sorts = FALSE
  /\ has_name_pattern = FALSE
  /\ pc = "normalize"
  /\ text \in NormStrings
  /\ combined_results = <<>>
  /\ final_results = <<>>
  /\ output = <<>>
  /\ outcome = "none"

\* output = _normalize_output(text)
NormalizeOnce ==
  /\ pc = "normalize"
  /\ output' = _normalize_output(text)
  /\ pc' = "normalized"
  /\ UNCHANGED <<hanlp_ner, merge_sorts, has_name_pattern, text, combined_results,
                 final_results, outcome>>

\* output = _normalize_output(output)
NormalizeAgain ==
  /\ pc = "normalized"
  /\ output' = _normalize_output(output)
  /\ pc' = "renormalized"
  /\ UNCHANGED <<hanlp_ner, merge_sorts, has_name_pattern, text, combined_results,
                 final_results, outcome>>

NextNormalize == NormalizeOnce \/ NormalizeAgain

SpecNormalize == InitNormalize /\ [][NextNormalize]_vars

----------------------------------------------------------------------------
(* Properties of a redact call.                                            *)

\* the ranges of a and b intersect
Overlap(a, b) == Max(a.start, b.start) < Min(a.end, b.end)

\* the call has validated its candidates
Refined == pc = "anonymize" \/ (pc = "done" /\ outcome # "raised")
\* the call has returned what step 8 built
Returned == pc = "done" /\ outcome = "returned"

\* what the engine applied in this call
AppliedNow == Applied(text, final_results, merge_sorts)

\* C1: the spans redact passes on to the redaction step after validation
\* are pairwise non-overlapping: sorted by start, end[i] <= start[i+1].
C1_FinalSetNonOverlapping ==
  Refined =>
    LET sorted == SortedByStart(final_results)
    IN  \A i \in 1..(Len(sorted) - 1) : sorted[i].end <= sorted[i + 1].start

\* C2: every span of the final set satisfies 0 <= start < end <= len(text),
\* whatever offsets the detectors report.
C2_FinalSpansInBounds ==
  Refined =>
    \A k \in 1..Len(final_results) :
      /\ 0 <= final_results[k].start
      /\ final_results[k].start < final_results[k].end
      /\ final_results[k].end <= Len(text)

\* C3: when the anonymize step or the normalization after it fails, redact
\* returns exactly the original text.
C3_FailOpen == (pc = "done" /\ outcome = "recovered") => output = text

\* C3 happens: step 8 failed after the engine had rewritten the text
C3_Witness ==
  /\ pc = "done" /\ outcome = "recovered"
  /\ final_results # <<>>
  /\ anonymize(text, final_results, merge_sorts).ok
  /\ anonymize(text, final_results, merge_sorts).text # text

\* C4: redact never raises to its caller: a failure of any internal step
\* ends with the original text returned.
C4_NeverRaises == pc = "done" => (outcome # "raised" /\ (outcome = "recovered" => output = text))

\* C5: the normalizer is idempotent: normalizing its own result changes
\* nothing.
C5_NormalizeIdempotent == pc = "renormalized" => output = _normalize_output(text)

\* C5 happens: a string with a bracket next to a letter or digit and with
\* whitespace the normalizer removes has been normalized twice
C5_Witness ==
  /\ pc = "renormalized"
  /\ \E i \in 1..(Len(text) - 1) :
       \/ text[i] \in AlnumChars /\ text[i + 1] = "["
       \/ text[i] = "]" /\ text[i + 1] \in AlnumChars
  /\ \E i \in 1..Len(text) : text[i] \in SpaceChars
  /\ Len(output) # Len(text)

\* the tags of the operator table
EnumeratedTags == {tags[k] : k \in DOMAIN tags}

\* C6: whatever redact writes in place of a final span is one of the
\* enumerated tags, or the span's own text kept verbatim.
C6_OnlyEnumeratedTags ==
  Returned =>
    \A k \in 1..Len(AppliedNow) :
      LET original == Slice(text, AppliedNow[k].start, AppliedNow[k].end)
      IN  OperateOnText(AppliedNow[k], original) \in EnumeratedTags \cup {original}

\* s is what the normalizer leaves alone, said without the normalizer: no
\* whitespace at the ends, no whitespace but single spaces, no bracket
\* next to a letter or digit
IsNormalized(s) ==
  /\ s # <<>> => (s[1] \notin SpaceChars /\ s[Len(s)] \notin SpaceChars)
  /\ \A i \in 1..Len(s) : s[i] \in SpaceChars => s[i] = " "
  /\ \A i \in 1..(Len(s) - 1) :
       /\ ~ (s[i] \in SpaceChars /\ s[i + 1] \in SpaceChars)
       /\ ~ (s[i] \in AlnumChars /\ s[i + 1] = "[")
       /\ ~ (s[i] = "]" /\ s[i + 1] \in AlnumChars)

\* C7 as stated: when the final set is empty, redact returns the input
\* text exactly, character for character.
C7_EmptyFinalSetReturnsInput == (Returned /\ final_results = <<>>) => output = text

\* C7 amended: when the final set is empty and step 8 does not fail,
\* redact returns the normalized input, which is the input itself exactly
\* when the input is already normalized.
C7_EmptyFinalSetReturnsNormalized ==
  (Returned /\ final_results = <<>>) =>
    /\ output = _normalize_output(text)
    /\ (output = text) <=> IsNormalized(text)

\* C7 happens: a call with an empty final set returned a text that is not
\* its input
C7_Witness == Returned /\ final_results = <<>> /\ text # <<>> /\ output # text

\* candidate a is retained: an applied span of its kind covers its range
\* (the engine may have widened it by merging spans of one kind)
Retained(a) ==
  \E k \in 1..Len(AppliedNow) :
    AppliedNow[k].type = a.type /\ ContainsSpan(AppliedNow[k], a)

\* C8: among validated candidates whose ranges intersect, the one with the
\* highest score is retained: a candidate that outscores every candidate
\* it intersects is never displaced.
C8_HighestScoreRetained ==
  Returned =>
    \A i \in 1..Len(final_results) :
      (\A j \in 1..Len(final_results) :
         (j # i /\ Overlap(final_results[i], final_results[j]))
           => final_results[j].score < final_results[i].score)
        => Retained(final_results[i])

\* what redact returns from step 7 on when the combined list is combined
RedactFrom(s, combined, current_year, lenient, sorts) ==
  LET anonymized_result ==
        anonymize(s, FilterAndRefine(s, combined, current_year, lenient), sorts)
  IN  IF anonymized_result.ok THEN _normalize_output(anonymized_result.text)
      ELSE ExceptReturn(s, anonymized_result.text)

\* C9: the output of redact is the same for every permutation of the
\* combined candidate list: whatever the clock and the date parser answered
\* in the call that returned, the same answers give the same output for the
\* candidates in any other order.
C9_OrderIndependent ==
  Returned =>
    \A current_year \in CurrentYears :
      \A lenient \in LenientAnswers(text, combined_results, current_year) :
        RedactFrom(text, combined_results, current_year, lenient, merge_sorts) = output
          => \A p \in Permutations(1..Len(combined_results)) :
               RedactFrom(text, [k \in 1..Len(combined_results) |-> combined_results[p[k]]],
                          current_year, lenient, merge_sorts) = output

\* the pairs (flight-number candidate, PNR candidate) of the final set over
\* one range, as the two patterns score them
FlightPnrPairs ==
  { pr \in (1..Len(final_results)) \X (1..Len(final_results)) :
      /\ final_results[pr[1]].type = "Flight Number"
      /\ final_results[pr[2]].type = "PNR"
      /\ equal_indices(final_results[pr[1]], final_results[pr[2]])
      /\ final_results[pr[1]].score = 60
      /\ final_results[pr[2]].score = 40 }

\* the applied spans that touch the range of a
AppliedOver(a) == {k \in 1..Len(AppliedNow) : Overlap(AppliedNow[k], a)}

\* the range of a is replaced by exactly one tag, and it is [Flight no]
OnlyFlightTag(a) ==
  /\ Cardinality(AppliedOver(a)) = 1
  /\ \A k \in AppliedOver(a) :
       /\ ContainsSpan(AppliedNow[k], a)
       /\ OperateOnText(AppliedNow[k], Slice(text, AppliedNow[k].start, AppliedNow[k].end))
            = tags.flight

\* no candidate of another kind competes for the range of flight candidate
\* f but candidates over that same range with a lower score
OnlyOutrankedRivals(f) ==
  \A m \in 1..Len(final_results) :
    (final_results[m].type # "Flight Number" /\ Overlap(final_results[m], f))
      => (equal_indices(final_results[m], f) /\ final_results[m].score < f.score)

\* C10 as stated: when a token matches the flight-number and the PNR shape
\* over one range, the range is replaced by exactly one tag and the tag is
\* [Flight no].
C10_FlightOutranksPnr ==
  Returned => \A pr \in FlightPnrPairs : OnlyFlightTag(final_results[pr[1]])

\* C10 amended: the [PNR] tag is never written over that range; and when
\* the only other candidates on the range are candidates over the same
\* range that score less than the flight number, the range is replaced by
\* exactly one tag and the tag is [Flight no].
C10_FlightOutranksPnrAmongOutranked ==
  Returned =>
    \A pr \in FlightPnrPairs :
      /\ \A k \in AppliedOver(final_results[pr[1]]) : AppliedNow[k].type # "PNR"
      /\ OnlyOutrankedRivals(final_results[pr[1]]) => OnlyFlightTag(final_results[pr[1]])

\* C10 happens: a flight number that is also a PNR and a third, lower
\* scored candidate over the same range went through the engine
C10_Witness ==
  /\ Returned
  /\ \E pr \in FlightPnrPairs :
       /\ OnlyOutrankedRivals(final_results[pr[1]])
       /\ \E m \in 1..Len(final_results) :
            /\ final_results[m].type \notin {"Flight Number", "PNR"}
            /\ equal_indices(final_results[m], final_results[pr[1]])

-----------------------------------------------------------------------------
(* The validators of step 7, applied to single candidates in a context.    *)

\* The texts the validators are run on: a literal alone, next to a keyword,
\* and with a keyword whose far end is exactly window characters, and one
\* character more, away from it. The keywords are a word of
\* pnr_context_keywords and a word of context_keywords.  One more text has
\* three words: two names, each found by a detector of redact, and a place.
ValidatorTexts ==
  LET literals ==
        { <<"F","L","I","G","H","T">>, <<"H","e","l","l","o">>,
          <<"A","b","c","d","e">>, <<"A","B","C","D","E">>,
          <<"A","B","1","2","C">>, <<"a","b","1","2","c">>,
          <<"1","2","3","4","5">>, <<"M","a","y">>, <<"L","i">>,
          <<"M","a","y"," ","L","i">>, <<"a"," "," ","b">>,
          <<"A","A","1","2","3">>, <<"a","a","1","2","3">>,
          <<"i","s"," ","1","2","3">>, <<"A","b"," ","1","2","3","4">>,
          <<"R","E","F","A","B">>, <<"R","E","F","U","N","D">>,
          <<"C","A","R","D","1","2">>, <<"c","a","r","d","1","2">>,
          <<"0","1","0","1","1","9","9","0">>,
          <<"1","9","9","0","-","0","5","-","2","0">>,
          <<"a",".","c","o">>, <<"a","@","b",".","c","o">>,
          <<"4","1","1","1","1","1","1","1","1","1","1","1","1","1","1","1">> }
      keywords == { <<"p","n","r">>, <<"c","a","r","d">> }
      Dots(n) == [i \in 1..n |-> "."]
      InContext(literal) ==
        {literal}
          \cup {Join(<<k, literal>>) : k \in keywords}
          \cup {k \o Dots(window - Len(k) + d) \o literal : k \in keywords, d \in {0, 1}}
          \cup {literal \o Dots(window - Len(k) + d) \o k : k \in keywords, d \in {0, 1}}
  IN  UNION {InContext(literal) : literal \in literals}
        \cup { <<"L","i"," ","U674E","U660E"," ","P","a","r","i","s">> }

\* what the predefined recognizers may report for s: up to MaxNer results,
\* as in NerReports, with PERSON results scored around the threshold of
\* the PERSON branch as well
ValidatorNer(s) ==
  LET statistical ==
        {Result("PERSON", sp[1], sp[2], score) :
           sp \in TokenSpans(s), score \in {59, 60, 61}}
          \cup {c \in NerCandidates(s) :
                  [type |-> c.type, score |-> c.score] \in NerKinds}
      shaped == {c \in NerCandidates(s) :
                   [type |-> c.type, score |-> c.score] \notin NerKinds}
  IN  UNION { {labelled \cup matched :
                 matched \in {m \in SUBSET shaped :
                                Cardinality(labelled \cup m) <= MaxNer}} :
              labelled \in DisjointReports(statistical, 0, MaxNer) }

\* redact(text) has collected its candidates (steps 1 to 6) and is about to
\* validate them
InitValidate ==
  /\ hanlp_ner = "absent"
  /\ merge_sorts \in BOOLEAN
  /\ has_name_pattern = TRUE
  /\ pc = "refine"
  /\ text \in ValidatorTexts
  /\ \E found \in {Detectors(text)} : \E ner \in ValidatorNer(text) :
       combined_results =
         Combined(analyze(found.pattern_results, ner), found.phone_results,
                  ChineseResults(<<>>, found.custom_raw),
                  found.romanized_results, found.sticky_tickets)
  /\ final_results = <<>>
  /\ output = <<>>
  /\ outcome = "none"
NextValidate == Refine \/ Anonymize
SpecValidate == InitValidate /\ [][NextValidate]_vars

\* the literal the loop of step 7 validates for candidate res
EntityText(res) == strip(Slice(text, res.start, res.end))
\* candidate res is in the final set
InFinal(res) == \E k \in 1..Len(final_results) : final_results[k] = res
\* the candidates of the call of one kind
CandidatesOf(type) ==
  {combined_results[i] : i \in {j \in 1..Len(combined_results) : combined_results[j].type = type}}
\* the PNR validator rejects the literal before it looks at digits or context
RejectedOutright(entity_text) ==
  \/ Str(upper(entity_text)) \in pnr_blacklist
  \/ (isalpha(entity_text) /\ ~isupper(entity_text))

\* C11: a PNR candidate whose uppercased literal is in the blacklist, or
\* whose literal is all letters and not all uppercase, is never in the final
\* set, whatever surrounds it (a booking keyword included), and a text whose
\* PNR candidates are all of that sort is returned without the tag [PNR].
C11_PnrBlacklistAndCase ==
  /\ Refined =>
       \A res \in CandidatesOf("PNR") :
         RejectedOutright(EntityText(res)) => ~InFinal(res)
  /\ (Returned /\ \A res \in CandidatesOf("PNR") : RejectedOutright(EntityText(res)))
       => ~Contains(output, tags.pnr)

\* C11 happens: a call returned whose text has a blacklisted PNR candidate
\* with a PNR keyword in its window
C11_Witness ==
  /\ Returned
  /\ \E res \in CandidatesOf("PNR") :
       /\ Str(upper(EntityText(res))) \in pnr_blacklist
       /\ isupper(EntityText(res))
       /\ \E k \in pnr_context_keywords : Contains(Snippet(text, res.start, res.end), k)

\* a word of keys occurs in the lowercased text of s between window
\* characters before the start of res and window characters after its end,
\* as far as s reaches
KeywordNear(s, res, keys) ==
  \E k \in keys :
    \E i \in Max(0, res.start - window)..(Min(Len(s), res.end + window) - Len(k)) :
      \A j \in 1..Len(k) : LowerOf(s[i + j]) = k[j]

\* C13: a Frequent Flyer candidate is in the final set exactly when its
\* literal has no lowercase letter, is not digits only, and a context
\* keyword occurs within window characters of it; digits alone are rejected
\* even with a keyword next to them.
C13_FrequentFlyerIff ==
  Refined =>
    \A res \in CandidatesOf("Frequent Flyer") :
      InFinal(res) <=>
        ( /\ ~AnyLower(EntityText(res))
          /\ ~isdigit(EntityText(res))
          /\ KeywordNear(text, res, context_keywords) )

\* C13 happens: a call returned whose text has a Frequent Flyer candidate
\* of digits only with a context keyword within its window
C13_Witness ==
  /\ Returned
  /\ \E res \in CandidatesOf("Frequent Flyer") :
       /\ isdigit(EntityText(res))
       /\ KeywordNear(text, res, context_keywords)
       /\ ~InFinal(res)

\* C18: a PNR candidate that the blacklist and the case test let through is
\* in the final set whenever its literal has a digit, whatever surrounds it;
\* when its literal is all uppercase letters it is in the final set exactly
\* when a PNR keyword occurs within window characters of it, the window
\* ending where the text ends.
C18_PnrDigitOrContext ==
  Refined =>
    \A res \in CandidatesOf("PNR") :
      ~RejectedOutright(EntityText(res)) =>
        /\ AnyDigit(EntityText(res)) => InFinal(res)
        /\ (isalpha(EntityText(res)) /\ isupper(EntityText(res))) =>
             (InFinal(res) <=> KeywordNear(text, res, pnr_context_keywords))

\* C18 happens: an all-uppercase PNR candidate closer than window characters
\* to the start of the text was accepted for a keyword after it
C18_Witness ==
  /\ Refined
  /\ \E res \in CandidatesOf("PNR") :
       /\ isalpha(EntityText(res)) /\ isupper(EntityText(res))
       /\ res.start < window
       /\ Len(text) > window
       /\ InFinal(res)

\* the literal is one word, and that word is one of the common words of the
\* PERSON branch
CommonSingleWord(entity_text) ==
  /\ Len(split(entity_text)) = 1
  /\ Str(lower(entity_text)) \in common_single_words

\* C20 as stated: a PERSON candidate of one common word is in the final set
\* only when its score is strictly greater than 0.6; every other PERSON
\* candidate is kept.
C20_CommonWordKeptAboveThreshold ==
  Refined =>
    \A res \in CandidatesOf("PERSON") :
      IF CommonSingleWord(EntityText(res))
        THEN InFinal(res) <=> res.score > 60
        ELSE InFinal(res)

\* C20: a PERSON candidate of one common word is in the final set exactly
\* when its score is at least 0.6; every other PERSON candidate (several
\* words, or a word outside the list) is kept.
C20_CommonWordKeptFromThreshold ==
  Refined =>
    \A res \in CandidatesOf("PERSON") :
      IF CommonSingleWord(EntityText(res))
        THEN InFinal(res) <=> res.score >= 60
        ELSE InFinal(res)

\* C20 happens: a PERSON candidate of one common word with a score of
\* exactly 0.6 went through validation and is in the final set
C20_Witness ==
  /\ Refined
  /\ \E res \in CandidatesOf("PERSON") :
       CommonSingleWord(EntityText(res)) /\ res.score = 60 /\ InFinal(res)

-----------------------------------------------------------------------------
(* is_likely_dob, applied to date texts.                                   *)

\* the date texts is_likely_dob is applied to: eight digits that are a date
\* under the first, the second, the third or none of the formats, with years
\* on either side of every comparison; and texts left to the lenient
\* parser, among them dates written year-month-day with such years, years
\* written with leading zeros, six digits, and names of months and weekdays
DateTexts ==
  { <<"0","1","0","1","1","9","9","0">>, <<"3","1","1","2","1","9","9","0">>,
    <<"1","9","9","0","0","1","0","1">>, <<"1","9","1","2","0","1","0","1">>,
    <<"0","1","0","1","2","0","2","3">>, <<"0","1","0","1","2","0","2","4">>,
    <<"0","1","0","1","2","0","2","5">>, <<"0","1","0","1","2","0","2","6">>,
    <<"0","1","0","1","2","0","2","7">>, <<"0","1","0","1","2","0","2","8">>,
    <<"0","1","0","1","1","9","0","0">>, <<"0","1","0","1","1","9","0","1">>,
    <<"9","9","9","9","9","9","9","9">>, <<"0","2","2","9","1","9","9","0">>,
    <<"0","2","2","9","2","0","0","0">>, <<"1","0","1","1","9","9","0">>,
    <<"J","a","n"," ","1","9","9","0">>, <<>>,
    <<"1","1","1","2","1","2","0","1">>,
    <<"1","9","0","1","1","2","3","1">>,
    <<"1","3","0","1","1","9","9","0">>,
    <<"2","0","0","0","0","2","2","9">>,
    <<"0","0","0","0","0","0","0","0">>,
    <<"1","2","3","1","2","0","2","2">>,
    <<"1","9","9","0","-","0","5","-","2","0">>,
    <<"2","0","3","0","-","0","1","-","0","1">>,
    <<"1","9","0","0","-","1","2","-","3","1">>,
    <<"1","9","0","1","-","0","1","-","0","1">>,
    <<"2","0","2","3","-","0","6","-","1","5">>,
    <<"2","0","2","4","-","0","6","-","1","5">>,
    <<"2","0","2","5","-","0","6","-","1","5">>,
    <<"2","0","2","6","-","0","6","-","1","5">>,
    <<"2","0","2","7","-","0","6","-","1","5">>,
    <<"1","9","9","0","-","0","2","-","3","0">>,
    <<"0","0","7","7">>, <<"0","0","7","5">>,
    <<"b","o","r","n"," ","0","0","8","5">>,
    <<"0","5","2","0","9","0">>, <<"J","a","n"," ","F","e","b">>, <<"J","a","n">>,
    <<"T","h","u"," ","D","e","c"," ","1","9","0","0">>,
    <<"0","0","0","7","7">>, <<"O","c","t","/","t","h">> }

InitDob ==
  /\ hanlp_ner = "absent"
  /\ merge_sorts = FALSE
  /\ has_name_pattern = TRUE
  /\ pc = "classify"
  /\ text \in DateTexts
  /\ combined_results = <<>>
  /\ final_results = <<>>
  /\ output = <<>>
  /\ outcome = "none"
\* is_likely_dob(text): the clock reads current_year; the lenient parser,
\* when the text is left to it, fails or answers a date of some year
\* (LenientYears)
ClassifyDate ==
  /\ pc = "classify"
  /\ \E current_year \in {2026, 2027} :
       \E fuzzy_year \in LenientYears(clean_text(text), current_year) :
         outcome' = [current_year |-> current_year,
                     year |-> ParsedYear(text, fuzzy_year),
                     dob |-> is_likely_dob(text, current_year, fuzzy_year)]
  /\ pc' = "classified"
  /\ UNCHANGED <<hanlp_ner, merge_sorts, has_name_pattern, text, combined_results,
                 final_results, output>>
NextDob == ClassifyDate
SpecDob == InitDob /\ [][NextDob]_vars

\* C12: is_likely_dob answers DOB exactly when the text parses to a date
\* whose year y has 1900 < y < current year - 2; so it answers not-DOB for
\* a future year, for y >= current year - 2, for y <= 1900 and for a text
\* that does not parse; and it always answers.
C12_DobIffYearInRange ==
  pc = "classified" =>
    /\ outcome.dob \in BOOLEAN
    /\ outcome.dob <=>
         ( /\ outcome.year # ParseFailure
           /\ 1900 < outcome.year
           /\ outcome.year < outcome.current_year - 2 )
    /\ (outcome.year = ParseFailure \/ outcome.year > outcome.current_year
          \/ outcome.year >= outcome.current_year - 2 \/ outcome.year <= 1900)
         => ~outcome.dob

\* C12 happens: a date of exactly two years before the current one was
\* classified, and it is not a DOB
C12_Witness ==
  /\ pc = "classified"
  /\ outcome.year = outcome.current_year - 2
  /\ ~outcome.dob

\* the date the eight digits ds are under a format, given by the offsets of
\* its year, month and day fields: the year when the date exists, else
\* ParseFailure
YearUnder(ds, y, m, d) ==
  IF ValidDate(ToInt(Slice(ds, y, y + 4)), ToInt(Slice(ds, m, m + 2)),
               ToInt(Slice(ds, d, d + 2)))
    THEN ToInt(Slice(ds, y, y + 4))
    ELSE ParseFailure
\* a date of year y is a DOB when the clock reads current_year
InDobRange(y, current_year) == 1900 < y /\ y < current_year - 2

\* C19: for eight digits the date that is classified is the first calendar
\* date among month-day-year, day-month-year and year-month-day, in that
\* order; digits that are a date under an earlier format are never read
\* under a later one.
C19_FirstValidFormat ==
  (pc = "classified" /\ Len(text) = 8 /\ isdigit(text)) =>
    LET mdy == YearUnder(text, 4, 0, 2)
        dmy == YearUnder(text, 4, 2, 0)
        ymd == YearUnder(text, 0, 4, 6)
        first == IF mdy # ParseFailure THEN mdy
                 ELSE IF dmy # ParseFailure THEN dmy ELSE ymd
    IN  /\ outcome.year = first
        /\ outcome.dob <=> InDobRange(first, outcome.current_year)

\* C19 happens: eight digits that are a date under day-month-year and under
\* year-month-day, a DOB under the later format only, were classified
C19_Witness ==
  /\ pc = "classified" /\ Len(text) = 8 /\ isdigit(text)
  /\ YearUnder(text, 4, 0, 2) = ParseFailure
  /\ YearUnder(text, 4, 2, 0) # ParseFailure
  /\ InDobRange(YearUnder(text, 0, 4, 6), outcome.current_year)
  /\ ~InDobRange(YearUnder(text, 4, 2, 0), outcome.current_year)
  /\ ~outcome.dob

-----------------------------------------------------------------------------
(* The Chinese statistical detector, and what a call leaves behind.        *)

\* what the detectors of steps 2 to 5 that work by pattern alone find in t
PatternDetectors(t) ==
  [phone_results |-> PhoneAnalyze(t),
   custom_raw |-> CustomChineseNames(t),
   romanized_results |-> detect_names(t),
   sticky_tickets |-> StickyTickets(t)]
\* the same for every text redact is called on
DetectedByPattern == [t \in InputTexts |-> PatternDetectors(t)]
\* combined is results of the analyzer for t followed by tail
AnalyzerThen(t, combined, tail) ==
  LET n == Len(combined) - Len(tail)
  IN  /\ n >= 0
      /\ SubSeq(combined, n + 1, Len(combined)) = tail
      /\ \A i \in 1..n :
           /\ 0 <= combined[i].start /\ combined[i].start < combined[i].end
           /\ combined[i].end <= Len(t)
           /\ combined[i].score >= score_threshold
\* the pattern-based candidates as they stand in combined_results when the
\* statistical detector contributes nothing
PatternBased(found) ==
  found.phone_results
    \o [k \in 1..Len(found.custom_raw) |->
          Result("PERSON", found.custom_raw[k].start, found.custom_raw[k].end, 90)]
    \o found.romanized_results
    \o found.sticky_tickets

\* C14: when the Chinese statistical detector is absent, or raises on the
\* text, it contributes no candidate and redact goes on: the combined list
\* is the analyzer's results followed by every pattern-based candidate (phone,
\* surname-pattern name, romanized name, 13-digit ticket), which is the list
\* of a call in which the detector returned nothing.
C14_ChineseDetectorFailureIsEmpty ==
  pc = "refine" =>
    \E pattern_based \in {PatternBased(DetectedByPattern[text])} :
      /\ \A k \in 1..Len(pattern_based) :
           \E i \in 1..Len(combined_results) : combined_results[i] = pattern_based[k]
      /\ hanlp_ner = "absent" => AnalyzerThen(text, combined_results, pattern_based)
      /\ \A answer \in HanlpAnswers(text) :
           (hanlp_ner = "absent" \/ answer.raises) =>
             _get_hanlp_entities(hanlp_ner, answer)
               = _get_hanlp_entities("loaded", [raises |-> FALSE, items |-> <<>>])

\* C14 happens: a redactor without the statistical detector has collected
\* the candidates of a text with a Chinese name in it
C14_Witness ==
  /\ pc = "refine"
  /\ hanlp_ner = "absent"
  /\ CustomChineseNames(text) # <<>>
  /\ \E i \in 1..Len(combined_results) :
       combined_results[i].type = "PERSON" /\ combined_results[i].score = 90

\* C15: what redact(t) returns does not depend on the calls before it. A
\* call that starts on a redactor with a history (the surname pattern is
\* compiled, or an earlier call raised before compiling it) collects what a
\* first call collects from the same detector answers, and what it returns is
\* determined by its text, its candidates and the current year (it is the
\* text itself when step 8 raised).
C15_HistoryIndependent ==
  [][ /\ (pc = "idle" /\ pc' = "refine") =>
           \E found \in {DetectedByPattern[text']} :
             \E answer \in HanlpAnswers(text') :
               AnalyzerThen(text', combined_results',
                            found.phone_results
                              \o ChineseResults(_get_hanlp_entities(hanlp_ner, answer),
                                                found.custom_raw)
                              \o found.romanized_results \o found.sticky_tickets)
      /\ (pc' = "done" /\ outcome' = "returned") =>
           \E current_year \in CurrentYears :
             \E lenient \in LenientAnswers(text', combined_results', current_year) :
               output' = RedactFrom(text', combined_results', current_year, lenient,
                                    merge_sorts')
      /\ (pc' = "done" /\ outcome' = "recovered") => output' = text' ]_vars

\* C15 happens: a redactor whose surname pattern is compiled has returned
\* from a call on a text with a Chinese name, the name replaced
C15_Witness ==
  /\ Returned
  /\ has_name_pattern
  /\ CustomChineseNames(text) # <<>>
  /\ Contains(output, tags.name)

\* C16: no step of a redact call writes state that outlives the call: the
\* attributes of the redactor (the detector it loaded, its compiled
\* patterns) are the same after every step as before it, in the first call
\* as in every other.
C16_ConfigurationUnchanged ==
  [][ /\ hanlp_ner' = hanlp_ner
      /\ has_name_pattern' = has_name_pattern ]_vars

\* final_results[i] is of a kind ops keeps and its range meets no other
\* final span
KeptAlone(i) ==
  /\ final_results[i].type \in {type \in DOMAIN ops : ops[type].operator_name = "keep"}
  /\ \A j \in 1..Len(final_results) :
       j # i => ~Overlap(final_results[i], final_results[j])

\* C17 as stated: the characters of the range of a final span of a kept
\* kind (ORGANIZATION, LOCATION, GPE, NRP) that meets no other final span
\* appear in the output exactly as they are in the input.
C17_KeptRangeVerbatim ==
  Returned =>
    \A i \in 1..Len(final_results) :
      KeptAlone(i) =>
        Contains(output, Slice(text, final_results[i].start, final_results[i].end))

\* C17: no tag is written over the range of such a span: whatever the
\* engine applies over the range copies the characters it covers; and the
\* characters of the range appear in the output as the normalizer leaves
\* them.
C17_KeptRangeNormalized ==
  Returned =>
    \A i \in 1..Len(final_results) :
      KeptAlone(i) =>
        /\ \A k \in 1..Len(AppliedNow) :
             Overlap(AppliedNow[k], final_results[i]) =>
               LET original == Slice(text, AppliedNow[k].start, AppliedNow[k].end)
               IN  OperateOnText(AppliedNow[k], original) = original
        /\ Contains(output,
                    _normalize_output(Slice(text, final_results[i].start, final_results[i].end)))

\* C17 happens: a call returned with a kept span, alone on its range, whose
\* characters the normalizer changed
C17_Witness ==
  /\ Returned
  /\ \E i \in 1..Len(final_results) :
       /\ KeptAlone(i)
       /\ ~Contains(output, Slice(text, final_results[i].start, final_results[i].end))

\* C21: a Flight Number candidate is in the final set exactly when its
\* literal has no lowercase letter, and a text whose Flight Number
\* candidates all have a lowercase letter (the pattern is matched without
\* regard to case, so "is 123" is a candidate) is returned without the tag
\* [Flight no].
C21_FlightNumberIffNoLowercase ==
  /\ Refined =>
       \A res \in CandidatesOf("Flight Number") :
         InFinal(res) <=> ~AnyLower(EntityText(res))
  /\ (Returned /\ \A res \in CandidatesOf("Flight Number") : AnyLower(EntityText(res)))
       => ~Contains(output, tags.flight)

\* C21 happens: a call returned whose text has a Flight Number candidate
\* made of a lowercase word, a space and digits; it is not in the final set
\* and its literal is still in the output
C21_Witness ==
  /\ Returned
  /\ \E res \in CandidatesOf("Flight Number") :
       /\ AnyLower(EntityText(res))
       /\ Len(split(EntityText(res))) = 2
       /\ ~InFinal(res)
       /\ Contains(output, EntityText(res))

\* sub is list with some of its elements left out: the elements of sub
\* occur in list unchanged and in the order of sub
RECURSIVE OrderedSubList(_, _)
OrderedSubList(sub, list) ==
  IF sub = <<>> THEN TRUE
  ELSE IF list = <<>> THEN FALSE
  ELSE IF Head(sub) = Head(list) THEN OrderedSubList(Tail(sub), Tail(list))
  ELSE OrderedSubList(sub, Tail(list))

\* the loop of step 7 has no branch for the kind of res
Unvalidated(res) ==
  res.type \notin {"DATE_TIME", "PNR", "Flight Number", "Frequent Flyer", "PERSON"}

\* C22: validation only filters. The final list is the combined list with
\* some candidates left out: what is left has its start, end, kind and
\* score unchanged and is in the order of the combined list, nothing is
\* added, and the candidates of a kind other than DATE_TIME, PNR, Flight
\* Number, Frequent Flyer and PERSON are all in it.
C22_ValidationOnlyFilters ==
  Refined =>
    /\ OrderedSubList(final_results, combined_results)
    /\ SelectSeq(final_results, Unvalidated) = SelectSeq(combined_results, Unvalidated)

\* C22 happens: validation dropped a candidate that came before a candidate
\* it kept, and kept a candidate of a kind it has no validator for
C22_Witness ==
  /\ Refined
  /\ Len(final_results) >= 2
  /\ \E i, j \in 1..Len(combined_results) :
       /\ i < j
       /\ ~InFinal(combined_results[i])
       /\ InFinal(combined_results[j])
  /\ \E k \in 1..Len(final_results) : Unvalidated(final_results[k])

\* a word of keys is a substring of the lowercased literal
OwnKeyword(entity_text, keys) ==
  \E k \in keys : Contains(lower(entity_text), k)

\* no word of keys occurs in the text before res or in the text after it
NoKeywordAround(res, keys) ==
  \A k \in keys :
    /\ ~Contains(lower(Slice(text, 0, res.start)), k)
    /\ ~Contains(lower(Slice(text, res.end, Len(text))), k)

\* C23 as stated: a PNR candidate of uppercase letters, and a Frequent
\* Flyer candidate, whose lowercased literal contains a context keyword is
\* in the final set.
C23_OwnLiteralAccepts ==
  Refined =>
    /\ \A res \in CandidatesOf("PNR") :
         ( /\ isalpha(EntityText(res)) /\ isupper(EntityText(res))
           /\ OwnKeyword(EntityText(res), pnr_context_keywords) ) => InFinal(res)
    /\ \A res \in CandidatesOf("Frequent Flyer") :
         OwnKeyword(EntityText(res), context_keywords) => InFinal(res)

\* C23: the window the context checks scan contains the literal of the
\* candidate. A PNR candidate of uppercase letters that is not in the
\* blacklist, and a Frequent Flyer candidate without lowercase letter, is in
\* the final set when its own lowercased literal contains a context keyword,
\* whatever the text around it.
C23_OwnLiteralAcceptsUnlessRejected ==
  Refined =>
    /\ \A res \in CandidatesOf("PNR") \cup CandidatesOf("Frequent Flyer") :
         Contains(Snippet(text, res.start, res.end), lower(EntityText(res)))
    /\ \A res \in CandidatesOf("PNR") :
         ( /\ ~RejectedOutright(EntityText(res))
           /\ isalpha(EntityText(res)) /\ isupper(EntityText(res))
           /\ OwnKeyword(EntityText(res), pnr_context_keywords) ) => InFinal(res)
    /\ \A res \in CandidatesOf("Frequent Flyer") :
         ( /\ ~AnyLower(EntityText(res))
           /\ OwnKeyword(EntityText(res), context_keywords) ) => InFinal(res)

\* C23 happens: a PNR candidate of uppercase letters was accepted in a text
\* that has characters around it and no PNR keyword among them
C23_Witness ==
  /\ Refined
  /\ \E res \in CandidatesOf("PNR") :
       /\ isalpha(EntityText(res)) /\ isupper(EntityText(res))
       /\ OwnKeyword(EntityText(res), pnr_context_keywords)
       /\ Len(text) > res.end - res.start
       /\ NoKeywordAround(res, pnr_context_keywords)
       /\ InFinal(res)

=============================================================================
